---------------------------- MODULE Spec2Model ----------------------------
(***************************************************************************)
(* Mini-Games-Arcade: the real-time game loops of the canvas games.        *)
(*                                                                         *)
(* Each game is a React component; its state is modelled as one record     *)
(* variable whose fields keep the names of the component's state hooks and *)
(* refs.  JavaScript runs one callback at a time, so every handler is one  *)
(* atomic action; the bullet loop of TankBattle is split at its iteration  *)
(* boundaries (field pc/i) and no other handler runs while it is inside.   *)
(* React commits the state set by a handler, and runs the effects that     *)
(* copy state into the refs, when the handler has returned (commit).       *)
(*                                                                         *)
(* Geometry is abstracted.  TankBattle: where a moved bullet lands (free   *)
(* field, inside a wall rectangle, on a tank, off screen) is an input of   *)
(* the step.  BulletDodge: positions lie on a lattice of cells.            *)
(***************************************************************************)
EXTENDS Integers, Sequences, FiniteSets, TLC

VARIABLES tb, bd, clock, sd, gr, ex, sf, ids, nb, ls, pt, geo, fb, ttt, mm, ss, sn
    \* tb : the TankBattle component (src/components/games/AimTrainer.tsx)
    \* bd : the BulletDodge component (src/components/games/EmojiMatch.tsx)
    \* clock : the frame clock of a game loop, in milliseconds (TankBattle's
    \*         loop and FlappyBird's step, src/components/games/Game2048.tsx)
    \* sd : the SliceDash component (README.md, second listing)
    \* gr : the GravitySwayRunner component (README.md, first listing)
    \* ex : a collection a loop removes entities from, with the predicate of
    \*      the removal (bullets, blocks, power-ups, particles)
    \* sf : the canvas of a component and the loop that draws on it
    \* ids : the identifier counter of a component and its collection
    \* nb : the NeonBreakoutBlitz component (unnamed/part_001)
    \* ls : the event listeners a component has registered
    \* pt : the particles of a game
    \* geo : a moving bullet and the shapes it is tested against
    \* fb : the FlappyBird component (Game2048.tsx)
    \* ttt : the TicTacToe component (unnamed/part_006)
    \* mm : the MemoryMatch component (src/components/games/MemoryMatch.tsx)
    \* ss : the SimonSays component (unnamed/part_003)
    \* sn : the Snake component (src/components/games/Snake.tsx)

vars == <<tb, bd, clock, sd, gr, ex, sf, ids, nb, ls, pt, geo, fb, ttt, mm, ss, sn>>

\* What a step of one component leaves alone: the other components.
exceptTb == <<bd, clock, sd, gr, ex, sf, ids, nb, ls, pt, geo, fb, ttt, mm, ss, sn>>
exceptBd == <<tb, clock, sd, gr, ex, sf, ids, nb, ls, pt, geo, fb, ttt, mm, ss, sn>>
exceptClock == <<tb, bd, sd, gr, ex, sf, ids, nb, ls, pt, geo, fb, ttt, mm, ss, sn>>
exceptSd == <<tb, bd, clock, gr, ex, sf, ids, nb, ls, pt, geo, fb, ttt, mm, ss, sn>>
exceptGr == <<tb, bd, clock, sd, ex, sf, ids, nb, ls, pt, geo, fb, ttt, mm, ss, sn>>
exceptEx == <<tb, bd, clock, sd, gr, sf, ids, nb, ls, pt, geo, fb, ttt, mm, ss, sn>>
exceptSf == <<tb, bd, clock, sd, gr, ex, ids, nb, ls, pt, geo, fb, ttt, mm, ss, sn>>
exceptIds == <<tb, bd, clock, sd, gr, ex, sf, nb, ls, pt, geo, fb, ttt, mm, ss, sn>>
exceptNb == <<tb, bd, clock, sd, gr, ex, sf, ids, ls, pt, geo, fb, ttt, mm, ss, sn>>
exceptLs == <<tb, bd, clock, sd, gr, ex, sf, ids, nb, pt, geo, fb, ttt, mm, ss, sn>>
exceptPt == <<tb, bd, clock, sd, gr, ex, sf, ids, nb, ls, geo, fb, ttt, mm, ss, sn>>
exceptGeo == <<tb, bd, clock, sd, gr, ex, sf, ids, nb, ls, pt, fb, ttt, mm, ss, sn>>
exceptFb == <<tb, bd, clock, sd, gr, ex, sf, ids, nb, ls, pt, geo, ttt, mm, ss, sn>>
exceptTtt == <<tb, bd, clock, sd, gr, ex, sf, ids, nb, ls, pt, geo, fb, mm, ss, sn>>
exceptMm == <<tb, bd, clock, sd, gr, ex, sf, ids, nb, ls, pt, geo, fb, ttt, ss, sn>>
exceptSs == <<tb, bd, clock, sd, gr, ex, sf, ids, nb, ls, pt, geo, fb, ttt, mm, sn>>
exceptSn == <<tb, bd, clock, sd, gr, ex, sf, ids, nb, ls, pt, geo, fb, ttt, mm, ss>>

---------------------------------------------------------------------------
(* Bounds of the model *)

\* bullets in flight, kill counts and pending newRound timers explored by SpecTank
MatchBullets == 1
MatchScoreCap == 5
MatchTimers == 1
\* the same for SpecBullets, which explores the bullet loop
LoopBullets == 2
LoopScoreCap == 1
LoopTimers == 1

\* BulletDodge: bullets and power-ups on the canvas, the score, the shots of
\* an aimed pattern (the code fires three or more), and the lattice the positions lie on (columns 0..DodgeCols, rows 0..DodgeRows;
\* row 0 is the spawn line above the canvas)
DodgeBullets == 2
DodgePowerUps == 1
DodgeScoreCap == 30
DodgeAimShots == 1
DodgeCols == 0
DodgeRows == 2

\* The frame clock: the last timestamp explored, the longest gap between two
\* frames, and how far performance.now() can be ahead of the timestamp of
\* the frame that comes next (all in ms)
ClockHorizon == 110
ClockMaxGap == 55
ClockLead == 2

\* SliceDash: the seconds of a session explored (the code gives 45), and for
\* the two levels it is explored at: the fruits on the canvas, the score,
\* the combo count and the misses counted
SliceSeconds == 1
MissFruits == 2
MissScoreCap == 10
MissComboCap == 1
MissCap == 12
BombFruits == 1
BombScoreCap == 520
BombComboCap == 4
BombMissCap == 1

\* GravitySwayRunner: the obstacles on the canvas and those created in a session
RunnerObstacles == 2
RunnerCreated == 3

\* Removal passes: the entities of a collection, the greatest value of an
\* entity, and the passes applied one after the other
ExpireLen == 3
ExpireTop == 2
ExpirePasses == 2

\* The canvas: the simulation steps counted
SurfaceTicks == 6

\* Identifiers: the entities in the collection, the identifiers allocated
\* in a row, and the shots of an aimed pattern (the code fires 3 or more)
SpawnerEntities == 3
SpawnerIds == 6
SpawnerShots == 2

\* NeonBreakoutBlitz: the blocks of a level, the balls, the falling
\* power-ups, the levels, and the frames a power-up lasts
BreakoutBlocks == 2
BreakoutBalls == 3
BreakoutPowerUps == 1
BreakoutLevels == 2
PowerUpFrames == 2

\* Listeners: the function expressions registered
ListenerCap == 16

\* Multi-touch: fingers, and positions 0..TouchCells
TouchPointers == 3
TouchCells == 2

\* Particles: particles made, their longest life, the longest gap
\* between frames, the longest dt, the delay of the drawing, the clock
ParticleCount == 2
ParticleLife == 3
ParticleGap == 2
ParticleStep == 1
ParticleLag == 1
ParticleHorizon == 5

\* Movement: frames
GeoFrames == 3

\* FlappyBird: pipes on screen, the score, the longest way of a frame
\* (half pixels)
FlappyPipes == 1
FlappyScoreCap == 3
FlappyStepMax == 12

\* MemoryMatch: the pairs of cards (the program deals 8), the move limits
\* the input accepts (the program clamps to 8..100 and starts with 30: the
\* model's games start with the upper one) and the pending timers.
MemoryPairs == 2
MemoryLimitMin == 4
MemoryLimitMax == 5
MemoryTimers == 2

\* SimonSays: the colours (the program has 4), the longest sequence and
\* the playbacks scheduled or running at one time.
SimonColors == 2
SimonRounds == 2
SimonPlaybacks == 2

\* Snake: the moves of one game, and how far from the start cell the
\* food is put.
SnakeTicks == 3
SnakeReach == 1

---------------------------------------------------------------------------
(* TankBattle *)

WIN_SCORE == 5
FULL_HEALTH == 100
BULLET_DAMAGE == 34
SHOOT_COOLDOWN == 600
MAX_BOUNCES == 2

\* A tank (type Tank), without its position: health and shooting cooldown.
NewTank == [health |-> FULL_HEALTH, cooldown |-> 0]

\* The component right after construction: Idle, no frame scheduled, the
\* canvas drawn once by the mount effect. drawn is where loop() stood when
\* drawFrame() last ran: outside it (idle), or inside with i bullets of
\* the bullet loop still to come.
TankBattleInit ==
    [ running |-> FALSE, gameOver |-> FALSE, winner |-> 0,
      score1 |-> 0, score2 |-> 0,
      runningRef |-> FALSE, gameOverRef |-> FALSE,
      rafRef |-> FALSE, lastTimeRef |-> FALSE,
      tank1Ref |-> NewTank, tank2Ref |-> NewTank,
      bulletsRef |-> <<>>,
      newRoundTimers |-> 0,
      pc |-> "idle", i |-> 0,
      drawn |-> [pc |-> "idle", i |-> 0] ]

\* The two effects that copy the committed state into the refs.
commit(s) == [s EXCEPT !.runningRef = s.running, !.gameOverRef = s.gameOver]

\* resetGame(): tanks, bullets, gameOver, winner and running; the scores and
\* the scheduled frame are left as they are.
resetGame(s) ==
    [s EXCEPT !.tank1Ref = NewTank, !.tank2Ref = NewTank,
              !.bulletsRef = <<>>,
              !.gameOver = FALSE, !.winner = 0, !.running = FALSE]

\* startGame() without its call of resetGame().
startGame_withoutReset(s) ==
    [s EXCEPT !.running = TRUE, !.lastTimeRef = FALSE, !.rafRef = TRUE]

\* startGame(): reset, then run, forget the last timestamp, and replace the
\* scheduled frame (cancel + request) by one fresh request.
startGame(s) ==
    [resetGame(s) EXCEPT !.running = TRUE, !.lastTimeRef = FALSE, !.rafRef = TRUE]

\* newRound(): both tanks restored, bullets cleared.
newRound(s) ==
    [s EXCEPT !.tank1Ref = NewTank, !.tank2Ref = NewTank, !.bulletsRef = <<>>]

\* The bullet shoot() creates; zone says whether the barrel tip (29 px from
\* the tank's centre, which may be 24 px from a wall) lies inside a wall.
NewBullet(owner, zone) ==
    [owner |-> owner, bounces |-> 0, maxBounces |-> MAX_BOUNCES, zone |-> zone]

\* shoot(tank, owner)
shoot(s, owner, zone) ==
    LET tank == IF owner = 1 THEN s.tank1Ref ELSE s.tank2Ref IN
    IF tank.cooldown > 0 THEN s
    ELSE LET pushed == [s EXCEPT !.bulletsRef = Append(@, NewBullet(owner, zone))] IN
         IF owner = 1 THEN [pushed EXCEPT !.tank1Ref.cooldown = SHOOT_COOLDOWN]
                      ELSE [pushed EXCEPT !.tank2Ref.cooldown = SHOOT_COOLDOWN]

\* Where a bullet can be between two frames: in the free field, or strictly
\* inside a wall rectangle (spawned there, or left there by a bounce that
\* reflected nothing).
Zones == {"open", "wall"}

\* Where a bullet is when the loop removes it: inside a wall with no bounce
\* left, within a tank's radius, or beyond the screen margin.
expired(b) == b.zone \in {"hitWall", "tank", "off"}

\* bullets.pop() in the place of bullets.splice(i, 1).
splice_pop(seq, i) == [k \in 1..(Len(seq) - 1) |-> seq[k]]

\* splice(i, 1)
splice(seq, i) == [k \in 1..(Len(seq) - 1) |-> IF k < i THEN seq[k] ELSE seq[k + 1]]

\* The updater passed to setScore1 / setScore2 when a tank's health is <= 0,
\* with the state it sets from inside: the scorer's count goes up by one; at
\* WIN_SCORE the match is over, below it a newRound timer is started.
kill(s, scorer) ==
    LET newScore == (IF scorer = 1 THEN s.score1 ELSE s.score2) + 1
        counted == IF scorer = 1 THEN [s EXCEPT !.score1 = newScore]
                                 ELSE [s EXCEPT !.score2 = newScore]
    IN  IF newScore >= WIN_SCORE
        THEN [counted EXCEPT !.winner = scorer, !.gameOver = TRUE, !.running = FALSE]
        ELSE [counted EXCEPT !.newRoundTimers = @ + 1]

\* What the geometry tests of one bullet's iteration can answer, given where
\* the bullet was: wall = the moved bullet is inside a wall; sides = its old
\* position was left of, right of, above or below that wall (always so when
\* it was not inside a wall); hit = the tank within tank.size of it after the
\* wall test (never its owner's; never while it stays inside a wall);
\* off = beyond the screen margin (walls and tanks are on screen).
GeoCases(b) ==
    { g \in [wall : BOOLEAN, sides : BOOLEAN, hit : 0..2, off : BOOLEAN] :
        /\ g.hit # b.owner
        /\ g.sides => g.wall
        /\ (g.wall /\ b.zone = "open") => g.sides
        /\ (g.wall /\ ~g.sides) => g.hit = 0
        /\ g.off => (~g.wall /\ g.hit = 0) }

\* The bullet after the wall test: a contact with bounces left counts a
\* bounce; the velocity is reflected, and the bullet put back 1 px outside
\* the wall, only on the axes whose side flags are set: with no flag set the
\* bounce is counted and the bullet stays where it is, inside the wall.
bounce(b, g) ==
    IF g.wall /\ b.bounces < b.maxBounces
    THEN [b EXCEPT !.bounces = @ + 1,
                   !.zone = IF g.sides THEN "open" ELSE "wall"]
    ELSE [b EXCEPT !.zone = IF g.wall THEN "hitWall"
                           ELSE IF g.hit # 0 THEN "tank"
                           ELSE IF g.off THEN "off" ELSE "open"]

\* One iteration of "for (let i = bullets.length - 1; i >= 0; i--)".
updateBullet(s, g) ==
    LET b == s.bulletsRef[s.i]
        hitWall == g.wall /\ ~(b.bounces < b.maxBounces)
        moved == [s EXCEPT !.bulletsRef[s.i] = bounce(b, g)]
        gone == [moved EXCEPT !.bulletsRef = splice(@, s.i)]
    IN  IF hitWall THEN gone
        ELSE IF b.owner # 1 /\ g.hit = 1
        THEN LET hurt == [gone EXCEPT !.tank1Ref.health = @ - BULLET_DAMAGE]
             IN  IF hurt.tank1Ref.health <= 0 THEN kill(hurt, 2) ELSE hurt
        ELSE IF b.owner # 2 /\ g.hit = 2
        THEN LET hurt == [gone EXCEPT !.tank2Ref.health = @ - BULLET_DAMAGE]
             IN  IF hurt.tank2Ref.health <= 0 THEN kill(hurt, 1) ELSE hurt
        ELSE IF g.off THEN gone
        ELSE moved

\* "if (tank.cooldown > 0) tank.cooldown -= dt * 1000".  The frames in which
\* nothing but a cooldown changes are left out of the model: a cooldown is
\* over at the next modelled frame that has dt > 0 (the first frame after
\* startGame has dt = 0).
cool(tank, dtPositive) ==
    IF tank.cooldown > 0 /\ dtPositive THEN [tank EXCEPT !.cooldown = 0] ELSE tank

\* Start / Play Again button (disabled while running and not game over).
ClickStart ==
    /\ tb.pc = "idle"
    /\ ~(tb.running /\ ~tb.gameOver)
    /\ tb' = commit(startGame(tb))
    /\ UNCHANGED exceptTb

\* Reset button.
ClickReset ==
    /\ tb.pc = "idle"
    /\ tb' = commit(resetGame(tb))
    /\ UNCHANGED exceptTb

\* keydown of the space bar: the player's tank shoots when the game runs.
onKeyDown(maxBullets) ==
    /\ tb.pc = "idle"
    /\ tb.runningRef /\ ~tb.gameOverRef
    /\ Len(tb.bulletsRef) < maxBullets
    /\ \E zone \in Zones : tb' = shoot(tb, 1, zone)
    /\ UNCHANGED exceptTb

\* A timer set by "setTimeout(() => newRound(), 1500)" fires.
newRoundTimer ==
    /\ tb.pc = "idle"
    /\ tb.newRoundTimers > 0
    /\ tb' = [newRound(tb) EXCEPT !.newRoundTimers = @ - 1]
    /\ UNCHANGED exceptTb

\* loop(ts), up to the bullet loop: the scheduled frame fires; timestamps,
\* cooldowns, the computer's move (which may shoot); then the iteration
\* starts at the last bullet.
loopHead(maxBullets) ==
    /\ tb.pc = "idle"
    /\ tb.rafRef
    /\ \E aiShoots \in BOOLEAN, zone \in Zones :
        LET cooled == [tb EXCEPT !.rafRef = FALSE, !.lastTimeRef = TRUE,
                                 !.tank1Ref = cool(@, tb.lastTimeRef),
                                 !.tank2Ref = cool(@, tb.lastTimeRef)]
            moved == IF aiShoots THEN shoot(cooled, 2, zone) ELSE cooled
        IN  /\ aiShoots => Len(tb.bulletsRef) < maxBullets
            /\ tb' = [moved EXCEPT !.pc = "bullets", !.i = Len(moved.bulletsRef)]
    /\ UNCHANGED exceptTb

\* loop(ts), one bullet.
loopBullet(scoreCap, maxTimers) ==
    /\ tb.pc = "bullets"
    /\ tb.i >= 1
    /\ \E g \in GeoCases(tb.bulletsRef[tb.i]) :
        LET after == updateBullet(tb, g) IN
        /\ after.score1 <= scoreCap /\ after.score2 <= scoreCap
        /\ after.newRoundTimers <= maxTimers
        /\ tb' = [after EXCEPT !.i = tb.i - 1]
    /\ UNCHANGED exceptTb

\* drawFrame(): the canvas shows the tanks and bullets as they are now.
drawFrame(s) == [s EXCEPT !.drawn = [pc |-> s.pc, i |-> s.i]]

\* The draw and the request placed inside the bullet loop.
loopTail_early ==
    /\ tb.pc = "bullets"
    /\ tb' = commit([drawFrame(tb) EXCEPT !.pc = "idle", !.i = 0,
                                          !.rafRef = tb.runningRef /\ ~tb.gameOverRef])
    /\ UNCHANGED exceptTb

\* loop(ts), after the bullet loop: draw, and request the next frame if the
\* refs say the game runs; then React commits what the frame has set.
loopTail ==
    /\ tb.pc = "bullets"
    /\ tb.i = 0
    /\ tb' = commit([drawFrame(tb) EXCEPT !.pc = "idle",
                                          !.rafRef = tb.runningRef /\ ~tb.gameOverRef])
    /\ UNCHANGED exceptTb

TankNext(maxBullets, scoreCap, maxTimers) ==
    \/ ClickStart
    \/ ClickReset
    \/ onKeyDown(maxBullets)
    \/ newRoundTimer
    \/ loopHead(maxBullets)
    \/ loopBullet(scoreCap, maxTimers)
    \/ loopTail

---------------------------------------------------------------------------
(* BulletDodge *)

PLAYER_R == 14
START_LIVES == 3
BULLET_R == 8
POWERUP_R == 12
HIT_PENALTY == 30
SHIELD_BONUS == 20
SLOW_BONUS == 30
\* Positions lie on a lattice whose cells are SPACING px apart, more than
\* the sum of any two radii: two circles collide only in the same cell.  A
\* bullet needs many frames from one cell to the next: a frame either
\* carries the bullets on to their next cells or leaves them in their cells,
\* and a bullet pushed since the frame before (fresh) stays in its cell.
SPACING == 40
Cols == 0..DodgeCols
Rows == 1..DodgeRows
\* Power-ups appear above the row the player starts on.
PowerUpRow == 1

clamp(v, a, b) == IF v < a THEN a ELSE IF v > b THEN b ELSE v

\* circleCircleCollide(x1, y1, r1, x2, y2, r2)
circleCircleCollide(x1, y1, r1, x2, y2, r2) ==
    LET dx == x1 - x2
        dy == y1 - y2
        r == r1 + r2
    IN  dx * dx + dy * dy <= r * r

\* What the loop effect's closure reads: the state of the render it was
\* created in.
Closure(s) == [running |-> s.running, shield |-> s.shield, slowUntil |-> s.slowUntil]

\* The dependency list of the loop effect (without best, which changes only
\* together with running and gameOver).
Deps(s) == <<s.running, s.gameOver, s.lives, s.shield, s.slowUntil>>

StartPlayer == [x |-> 0, y |-> DodgeRows]

\* The component after mounting: Idle, and the loop effect has requested
\* its first frame.
BulletDodgeInit ==
    [ running |-> FALSE, gameOver |-> FALSE, lives |-> START_LIVES,
      shield |-> FALSE, slowUntil |-> 0,
      playerRef |-> StartPlayer,
      bulletsRef |-> <<>>, powerUpsRef |-> <<>>,
      scoreRef |-> 0,
      lastRef |-> FALSE, rafRef |-> "step",
      closure |-> [running |-> FALSE, shield |-> FALSE, slowUntil |-> 0],
      aimTimers |-> 0 ]

\* React commits what a handler has set: when a dependency of the loop
\* effect has changed, its cleanup cancels the requested frame and the
\* effect requests step again, with a closure over the new state.
commitDodge(old, new) ==
    IF Deps(new) # Deps(old)
    THEN [new EXCEPT !.rafRef = "step", !.closure = Closure(new)]
    ELSE new

\* start(): the frame it requests only stamps lastRef; the commit that
\* follows replaces it, because start() turns running on.
start(s) ==
    [s EXCEPT !.bulletsRef = <<>>, !.powerUpsRef = <<>>,
              !.playerRef = StartPlayer, !.scoreRef = 0,
              !.lives = START_LIVES, !.gameOver = FALSE, !.shield = FALSE,
              !.slowUntil = 0, !.running = TRUE,
              !.lastRef = FALSE, !.rafRef = "stamp"]

\* reset()
reset(s) ==
    [s EXCEPT !.running = FALSE, !.gameOver = FALSE,
              !.bulletsRef = <<>>, !.powerUpsRef = <<>>,
              !.lives = START_LIVES, !.scoreRef = 0,
              !.shield = FALSE, !.slowUntil = 0]

\* What one frame can spawn while running: the single bullet of the spawn
\* timer and one pattern of the pattern timer, a falling bullet or aimed
\* shots (pushed later, by timers), with or without a power-up.  (The
\* radial burst, six or more bullets at once, is not explored.)
Spawns ==
    [ top : BOOLEAN, pattern : {"none", "fall", "aim"},
      powerUp : {"none", "shield", "slow"}, x : Cols ]

NoSpawn == [top |-> FALSE, pattern |-> "none", powerUp |-> "none", x |-> 0]

\* The ids the code gives bullets and power-ups are distinct within a game
\* and serve only to find the object again in its own list; here an object
\* is known by its place in the list.
pushBullet(s, x, y, vx, vy) ==
    [s EXCEPT !.bulletsRef = Append(@, [x |-> x, y |-> y, vx |-> vx, vy |-> vy,
                                        r |-> BULLET_R, fresh |-> TRUE])]

pushPowerUp(s, x, type) ==
    [s EXCEPT !.powerUpsRef = Append(@, [x |-> x, y |-> PowerUpRow,
                                         type |-> type, r |-> POWERUP_R])]

\* spawnBulletPattern(now)
spawnBulletPattern(s, sp) ==
    LET patterned ==
            IF sp.pattern = "fall" THEN pushBullet(s, sp.x, 0, 0, 1)
            ELSE IF sp.pattern = "aim"
            THEN [s EXCEPT !.aimTimers = @ + DodgeAimShots]
            ELSE s
    IN  IF sp.powerUp = "none" THEN patterned
        ELSE pushPowerUp(patterned, sp.x, sp.powerUp)

\* The spawn part of step, which runs only when the closure's running is set.
spawn(s, sp) ==
    LET single == IF sp.top THEN pushBullet(s, sp.x, 0, 0, 1) ELSE s
    IN  IF sp.pattern = "none" THEN single ELSE spawnBulletPattern(single, sp)

\* "b.x += b.vx * dt; b.y += b.vy * dt": d = 1 in a frame that carries the
\* bullets on to their next cells, d = 0 in a frame that does not (dt = 0,
\* or dt too short for the way left, more so under the slow-time power-up).
advance(bullets, d) ==
    [k \in 1..Len(bullets) |->
        LET b == bullets[k]
            c == IF b.fresh THEN 0 ELSE d
        IN  [b EXCEPT !.x = @ + b.vx * c, !.y = @ + b.vy * c, !.fresh = FALSE]]

\* The filter that removes the bullets out of range.
inRange(b) == b.x >= -1 /\ b.x <= DodgeCols + 1 /\ b.y >= 0 /\ b.y <= DodgeRows

\* The updater passed to setLives, with the state it sets from inside.
loseLife(s) ==
    LET next == s.lives - 1 IN
    IF next <= 0
    THEN [s EXCEPT !.lives = next, !.running = FALSE, !.gameOver = TRUE]
    ELSE [s EXCEPT !.lives = next]

\* "collisions: bullets vs player", for the bullets of the copy from index
\* k on; s.bulletsRef holds the bullets kept so far.  shield is the closure's
\* value, the same for the whole step.  (The flash that spawnFlash pushes is
\* a picked power-up, which the power-up filter of the same step drops.)
RECURSIVE hitBullets(_, _, _, _)
hitBullets(s, copy, k, shield) ==
    IF k > Len(copy) THEN s
    ELSE LET b == copy[k]
             p == s.playerRef
         IN  IF ~circleCircleCollide(p.x * SPACING, p.y * SPACING, PLAYER_R,
                                     b.x * SPACING, b.y * SPACING, b.r)
             THEN hitBullets([s EXCEPT !.bulletsRef = Append(@, b)], copy, k + 1, shield)
             ELSE IF shield
             THEN hitBullets([s EXCEPT !.shield = FALSE], copy, k + 1, shield)
             ELSE hitBullets(
                    [loseLife(s) EXCEPT
                        !.scoreRef = IF @ - HIT_PENALTY < 0 THEN 0 ELSE @ - HIT_PENALTY],
                    copy, k + 1, shield)

\* "collisions: player vs powerups" with the filter that drops the picked;
\* s.powerUpsRef holds the power-ups kept so far.  Every setSlowUntil sets a
\* time not set before.
RECURSIVE pickPowerUps(_, _, _)
pickPowerUps(s, copy, k) ==
    IF k > Len(copy) THEN s
    ELSE LET pu == copy[k]
             p == s.playerRef
         IN  IF ~circleCircleCollide(p.x * SPACING, p.y * SPACING, PLAYER_R,
                                     pu.x * SPACING, pu.y * SPACING, pu.r)
             THEN pickPowerUps([s EXCEPT !.powerUpsRef = Append(@, pu)], copy, k + 1)
             ELSE IF pu.type = "shield"
             THEN pickPowerUps([s EXCEPT !.shield = TRUE,
                                         !.scoreRef = @ + SHIELD_BONUS],
                               copy, k + 1)
             ELSE pickPowerUps([s EXCEPT !.slowUntil = IF @ = 1 THEN 2 ELSE 1,
                                         !.scoreRef = @ + SLOW_BONUS],
                               copy, k + 1)

\* step(ts), for the closure c, a frame with dt > 0 or not, the spawns sp
\* and the displacement d of the bullets.
step(s, c, dtPositive, sp, d) ==
    LET stamped == [s EXCEPT !.lastRef = TRUE]
        spawned == IF c.running /\ dtPositive THEN spawn(stamped, sp) ELSE stamped
        moved == [spawned EXCEPT !.bulletsRef = SelectSeq(advance(@, d), inRange)]
        hit == hitBullets([moved EXCEPT !.bulletsRef = <<>>], moved.bulletsRef,
                          1, c.shield)
        picked == pickPowerUps([hit EXCEPT !.powerUpsRef = <<>>], hit.powerUpsRef, 1)
    IN  [picked EXCEPT !.rafRef = IF c.running THEN "step" ELSE "none"]

\* Start button (disabled while running).
DodgeClickStart ==
    /\ ~bd.running
    /\ bd' = commitDodge(bd, start(bd))
    /\ UNCHANGED exceptBd

\* Reset button.
DodgeClickReset ==
    /\ bd' = commitDodge(bd, reset(bd))
    /\ UNCHANGED exceptBd

\* pointerdown on the canvas: the player jumps to the pointer, and the game
\* starts if it is not running.
onDown ==
    /\ \E x \in Cols, y \in Rows :
        LET placed == [bd EXCEPT !.playerRef = [x |-> x, y |-> y]]
        IN  bd' = IF ~bd.running THEN commitDodge(bd, start(placed)) ELSE placed
    /\ UNCHANGED exceptBd

\* keydown: Space or Enter starts the game when it is not running; the
\* arrow keys move the player (held until it reaches the next cell).
onKey ==
    /\ \E key \in {"Enter", "ArrowLeft", "ArrowRight", "ArrowUp", "ArrowDown"} :
        IF ~bd.running /\ key = "Enter"
        THEN bd' = commitDodge(bd, start(bd))
        ELSE bd' = [bd EXCEPT
                !.playerRef.x = clamp(@ + (CASE key = "ArrowLeft" -> -1
                                             [] key = "ArrowRight" -> 1
                                             [] OTHER -> 0), 0, DodgeCols),
                !.playerRef.y = clamp(@ + (CASE key = "ArrowUp" -> -1
                                             [] key = "ArrowDown" -> 1
                                             [] OTHER -> 0), 1, DodgeRows)]
    /\ UNCHANGED exceptBd

sign(v) == IF v < 0 THEN -1 ELSE IF v > 0 THEN 1 ELSE 0

\* A timer of the aimed pattern fires: a bullet is pushed beside the canvas
\* (to its left; the right side is the mirror image), flying towards the
\* place the player is at.
aimTimer ==
    /\ bd.aimTimers > 0
    /\ Len(bd.bulletsRef) < DodgeBullets
    /\ LET sx == -1
           sy == 1
       IN  bd' = [pushBullet(bd, sx, sy, sign(bd.playerRef.x - sx),
                             sign(bd.playerRef.y - sy))
                     EXCEPT !.aimTimers = @ - 1]
    /\ UNCHANGED exceptBd

\* The requested frame fires: step runs with the closure of the render that
\* requested it, and React commits what it has set.
DodgeStep ==
    /\ bd.rafRef = "step"
    /\ LET c == bd.closure
           dtPositive == bd.lastRef
       IN  \E sp \in (IF c.running /\ dtPositive THEN Spawns ELSE {NoSpawn}),
              d \in 0..1 :
            LET after == step(bd, c, dtPositive, sp, d)
            IN  /\ d = 1 => dtPositive
                /\ sp.pattern = "aim" => bd.aimTimers = 0
                /\ Len(spawn(bd, sp).bulletsRef) <= DodgeBullets
                /\ Len(spawn(bd, sp).powerUpsRef) <= DodgePowerUps
                /\ after.scoreRef <= DodgeScoreCap
                /\ bd' = commitDodge(bd, after)
    /\ UNCHANGED exceptBd

DodgeNext ==
    \/ DodgeClickStart
    \/ DodgeClickReset
    \/ onDown
    \/ onKey
    \/ aimTimer
    \/ DodgeStep

---------------------------------------------------------------------------
(* The frame clock *)

\* The clamps of dt, in ms: Math.min(0.05, ...) and Math.min(..., 0.04).
LOOP_MAX_DT == 50
STEP_MAX_DT == 40

Min(a, b) == IF a < b THEN a ELSE b

\* The head of loop(ts) without Math.min.
loopClock_unclamped(lastTimeRef, ts) ==
    LET last == IF lastTimeRef = 0 THEN ts ELSE lastTimeRef
    IN  [raw |-> ts - last, dt |-> ts - last, last |-> ts]

\* TankBattle, the head of loop(ts); 0 is the null of lastTimeRef (and falsy
\* as null is).
loopClock(lastTimeRef, ts) ==
    LET last == IF lastTimeRef = 0 THEN ts ELSE lastTimeRef
    IN  [raw |-> ts - last, dt |-> Min(LOOP_MAX_DT, ts - last), last |-> ts]

\* FlappyBird, the head of step(now).
stepClock(lastFrame, now) ==
    [raw |-> now - lastFrame, dt |-> Min(now - lastFrame, STEP_MAX_DT), last |-> now]

\* now: the timestamp of the latest frame; last: lastTimeRef.current or
\* stateRef.current.lastFrame; raw and dt: the gap the latest tick measured
\* and the dt it handed to the simulation.
NewClock(game) == [game |-> game, now |-> 0, last |-> 0, raw |-> 0, dt |-> 0]

\* A frame of TankBattle.
TankTick ==
    /\ clock.game = "tank"
    /\ \E gap \in 1..ClockMaxGap :
        LET ts == clock.now + gap
            r == loopClock(clock.last, ts)
        IN  /\ ts <= ClockHorizon
            /\ clock' = [clock EXCEPT !.now = ts, !.last = r.last,
                                      !.raw = r.raw, !.dt = r.dt]
    /\ UNCHANGED exceptClock

\* startGame(): lastTimeRef.current = null.
TankRestart ==
    /\ clock.game = "tank"
    /\ clock.last # 0
    /\ clock' = [clock EXCEPT !.last = 0]
    /\ UNCHANGED exceptClock

\* A frame of FlappyBird.
FlappyTick ==
    /\ clock.game = "flappy"
    /\ \E gap \in 1..ClockMaxGap :
        LET now == clock.now + gap
            r == stepClock(clock.last, now)
        IN  /\ now <= ClockHorizon
            /\ clock' = [clock EXCEPT !.now = now, !.last = r.last,
                                      !.raw = r.raw, !.dt = r.dt]
    /\ UNCHANGED exceptClock

\* resetGameState() and the start of the loop effect: lastFrame is
\* performance.now(), read between two frames.
FlappyRestart ==
    /\ clock.game = "flappy"
    /\ \E lead \in 0..ClockLead :
        /\ clock.now + lead # clock.last
        /\ clock' = [clock EXCEPT !.last = clock.now + lead]
    /\ UNCHANGED exceptClock

ClockNext ==
    \/ TankTick
    \/ TankRestart
    \/ FlappyTick
    \/ FlappyRestart

---------------------------------------------------------------------------
(* SliceDash *)

MAX_MISSES == 10
BOMB_PENALTY == 500
\* The radius of the fruits explored (the code draws it from 12..34).
FRUIT_R == 20
\* min(comboRef, 20) in the multiplier
COMBO_TOP == 20

\* A fruit is on the canvas (zone 0), below its lower edge, where an
\* unsliced one counts as missed (zone 1: y > GAME_H + r), or past the
\* removal line (zone 2: y >= GAME_H + 120).
SliceDashInit ==
    [ running |-> FALSE, gameOver |-> FALSE, score |-> 0, timeLeft |-> SliceSeconds,
      runningRef |-> FALSE, gameOverRef |-> FALSE,
      fruitsRef |-> <<>>, missedRef |-> 0, comboRef |-> 0,
      swipeRef |-> FALSE, lastRef |-> FALSE ]

\* The effects that copy running and gameOver into their refs.
commitSlice(s) == [s EXCEPT !.runningRef = s.running, !.gameOverRef = s.gameOver]

\* start(); the loop effect, re-run because running changes, replaces the
\* frame start() requests by a request of step.
sliceStart(s) ==
    [s EXCEPT !.score = 0, !.timeLeft = SliceSeconds, !.missedRef = 0,
              !.fruitsRef = <<>>, !.swipeRef = FALSE, !.comboRef = 0,
              !.gameOver = FALSE, !.running = TRUE, !.lastRef = FALSE]

\* reset()
sliceReset(s) ==
    [s EXCEPT !.running = FALSE, !.gameOver = FALSE, !.score = 0,
              !.timeLeft = SliceSeconds, !.missedRef = 0,
              !.fruitsRef = <<>>, !.swipeRef = FALSE, !.comboRef = 0]

\* spawnFruit(now)
spawnFruit(s, kind) ==
    [s EXCEPT !.fruitsRef = Append(@, [r |-> FRUIT_R, zone |-> 0, sliced |-> FALSE,
                                       kind |-> kind, counted |-> FALSE])]

\* countMiss ending the game one miss late.
countMiss_late(s, k) ==
    LET f == s.fruitsRef[k] IN
    IF ~f.sliced /\ f.zone >= 1 /\ ~f.counted /\ f.kind # "bomb"
    THEN LET missed == [s EXCEPT !.fruitsRef[k].counted = TRUE,
                                 !.missedRef = @ + 1, !.comboRef = 0]
         IN  IF missed.missedRef > MAX_MISSES
             THEN [missed EXCEPT !.gameOver = TRUE, !.running = FALSE]
             ELSE missed
    ELSE s

\* "Check if missed": the fruit k, moved, is counted once when it is
\* unsliced, below the canvas and no bomb; the tenth miss ends the game.
countMiss(s, k) ==
    LET f == s.fruitsRef[k] IN
    IF ~f.sliced /\ f.zone >= 1 /\ ~f.counted /\ f.kind # "bomb"
    THEN LET missed == [s EXCEPT !.fruitsRef[k].counted = TRUE,
                                 !.missedRef = @ + 1, !.comboRef = 0]
         IN  IF missed.missedRef >= MAX_MISSES
             THEN [missed EXCEPT !.gameOver = TRUE, !.running = FALSE]
             ELSE missed
    ELSE s

\* "update fruits": every fruit falls by d zones, then the miss check.
RECURSIVE updateFruits(_, _, _)
updateFruits(s, k, d) ==
    IF k > Len(s.fruitsRef) THEN s
    ELSE updateFruits(countMiss([s EXCEPT !.fruitsRef[k].zone = @ + d], k), k + 1, d)

\* The filter "remove offscreen fruits".
onScreen(f) == f.zone < 2 /\ ~(f.sliced /\ f.zone >= 1 /\ f.kind # "bomb")

\* The updater of the bomb without its floor.
bombPenalty_unclamped(score) == score - BOMB_PENALTY

\* The updater of the bomb: Math.max(0, s - 500).
bombPenalty(score) == IF score - BOMB_PENALTY < 0 THEN 0 ELSE score - BOMB_PENALTY

\* 1 + Math.floor(Math.min(combo, 20) / 4)
multiplierOf(combo) == 1 + ((IF combo < COMBO_TOP THEN combo ELSE COMBO_TOP) \div 4)

\* Math.round(5 + f.r * 0.25), in quarters.
basePoints(r) == (4 * 5 + r + 2) \div 4

\* processSlicing(now), for the fruits from index k on; cut is the set of
\* the fruits the swipe's segments come close enough to.
RECURSIVE processSlicing(_, _, _)
processSlicing(s, k, cut) ==
    IF k > Len(s.fruitsRef) THEN s
    ELSE LET f == s.fruitsRef[k]
             sliced == [s EXCEPT !.fruitsRef[k].sliced = TRUE]
         IN  IF f.sliced \/ k \notin cut THEN processSlicing(s, k + 1, cut)
             ELSE IF f.kind = "bomb"
             THEN processSlicing([sliced EXCEPT !.score = bombPenalty(@),
                                                !.comboRef = 0], k + 1, cut)
             ELSE LET combo == s.comboRef + 1
                  IN  processSlicing(
                        [sliced EXCEPT !.comboRef = combo,
                                       !.score = @ + basePoints(f.r) * multiplierOf(combo)],
                        k + 1, cut)

\* step(ts): spawn (a fruit of this kind, or "none"), fall by d, filter,
\* swipe and combo decay, slicing, and the end of the time.
sliceStep(s, kind, d, swipeDecays, comboDecays, cut) ==
    LET dtPositive == s.lastRef
        stamped == [s EXCEPT !.lastRef = TRUE]
        spawned == IF s.runningRef /\ dtPositive /\ kind # "none"
                   THEN spawnFruit(stamped, kind) ELSE stamped
        fallen == updateFruits(spawned, 1, d)
        kept == [fallen EXCEPT !.fruitsRef = SelectSeq(@, onScreen),
                               !.swipeRef = @ /\ ~swipeDecays,
                               !.comboRef = IF comboDecays THEN 0 ELSE @]
        slicedAll == IF s.runningRef /\ kept.swipeRef
                     THEN processSlicing(kept, 1, cut) ELSE kept
    IN  IF s.runningRef /\ s.timeLeft <= 0
        THEN [slicedAll EXCEPT !.running = FALSE, !.gameOver = TRUE]
        ELSE slicedAll

\* Start button (disabled while running and not over).
SliceClickStart ==
    /\ ~(sd.running /\ ~sd.gameOver)
    /\ sd' = commitSlice(sliceStart(sd))
    /\ UNCHANGED exceptSd

\* Reset button.
SliceClickReset ==
    /\ sd' = commitSlice(sliceReset(sd))
    /\ UNCHANGED exceptSd

\* The one-second interval, which exists while running.
sliceTimer ==
    /\ sd.running
    /\ sd.timeLeft > 0
    /\ sd' = [sd EXCEPT !.timeLeft = @ - 1]
    /\ UNCHANGED exceptSd

\* pointerdown and pointermove: the swipe holds a fresh segment.
onPointerMove ==
    /\ ~sd.swipeRef
    /\ sd' = [sd EXCEPT !.swipeRef = TRUE]
    /\ UNCHANGED exceptSd

\* The timer of pointerup: the swipe is cleared.
onPointerUp ==
    /\ sd.swipeRef
    /\ sd' = [sd EXCEPT !.swipeRef = FALSE]
    /\ UNCHANGED exceptSd

\* A frame: the loop always has one requested (step requests the next, and
\* the loop effect requests one when it is re-run).
SliceStep(maxFruits, scoreCap, comboCap, missCap) ==
    /\ \E kind \in {"none", "circle", "bomb"}, d \in 0..1,
          swipeDecays \in BOOLEAN, comboDecays \in BOOLEAN,
          cut \in SUBSET (1..maxFruits) :
        LET after == sliceStep(sd, kind, d, swipeDecays, comboDecays, cut)
        IN  /\ d = 1 => sd.lastRef
            /\ kind # "none" => (sd.runningRef /\ sd.lastRef
                                   /\ Len(sd.fruitsRef) < maxFruits)
            /\ swipeDecays => sd.swipeRef
            /\ comboDecays => sd.comboRef > 0
            /\ cut # {} => (sd.runningRef /\ sd.swipeRef /\ ~swipeDecays)
            /\ \A k \in cut : k <= Len(after.fruitsRef) /\ after.fruitsRef[k].sliced
            /\ after.score <= scoreCap
            /\ after.comboRef <= comboCap
            /\ after.missedRef <= missCap
            /\ sd' = commitSlice(after)
    /\ UNCHANGED exceptSd

SliceNext(maxFruits, scoreCap, comboCap, missCap) ==
    \/ SliceClickStart
    \/ SliceClickReset
    \/ sliceTimer
    \/ onPointerMove
    \/ onPointerUp
    \/ SliceStep(maxFruits, scoreCap, comboCap, missCap)

---------------------------------------------------------------------------
(* GravitySwayRunner *)

\* Where an obstacle is, from its x: right of the player where it is
\* created (FAR), over the player's box with its right edge not yet left of
\* the player's centre (OVER), over the player's box with its right edge
\* left of the centre (BEHIND), left of the box (CLEAR), and off the canvas
\* (OFF: x + width <= -50), where the filter drops it.
FAR == 4
OVER == 3
BEHIND == 2
CLEAR == 1
OFF == 0

\* Where the player's box is, from its y: in reach of the obstacles hanging
\* from the ceiling, between the two rows, in reach of those on the ground.
CEILING == 0
MIDDLE == 1
GROUND == 2

GravityInit ==
    [ running |-> FALSE, gameOver |-> FALSE, score |-> 0, gravityDown |-> TRUE,
      runningRef |-> FALSE, gameOverRef |-> FALSE, gravityDownRef |-> TRUE,
      player |-> MIDDLE, obstaclesRef |-> <<>>, created |-> 0,
      lastTimeRef |-> FALSE, rafPending |-> FALSE ]

\* The effects that copy running, gameOver and gravityDown into their refs.
commitGravity(s) ==
    [s EXCEPT !.runningRef = s.running, !.gameOverRef = s.gameOver,
              !.gravityDownRef = s.gravityDown]

\* resetGame(): no frame is cancelled.
gravityReset(s) ==
    [s EXCEPT !.player = MIDDLE, !.obstaclesRef = <<>>, !.created = 0,
              !.score = 0, !.gameOver = FALSE, !.running = FALSE,
              !.gravityDown = TRUE]

\* spawnObstacle(): on the ground or the ceiling, tall when its height
\* closes the middle; created numbers the Obstacle objects of a session.
spawnObstacle(s, side, tall) ==
    [s EXCEPT !.created = @ + 1,
              !.obstaclesRef = Append(@, [id |-> s.created + 1, x |-> FAR, side |-> side,
                                          tall |-> tall, passed |-> FALSE])]

\* startGame(): the first obstacle is created at elapsed 0, at the least height.
gravityStart(s, side) ==
    spawnObstacle([s EXCEPT !.running = TRUE, !.gameOver = FALSE,
                            !.player = MIDDLE, !.obstaclesRef = <<>>, !.created = 0,
                            !.score = 0, !.lastTimeRef = FALSE, !.rafPending = TRUE],
                  side, FALSE)

\* flipGravity(); the branch of a running game that is over is never taken
\* (running and gameOver are never both set).
flipGravity(s, side) ==
    IF ~s.runningRef THEN gravityStart(s, side)
    ELSE IF s.gameOverRef THEN gravityReset(s)
    ELSE [s EXCEPT !.gravityDown = ~@]

\* "move obstacles": obstacle k moves mv[k] zones to the left.
moveObstacles(obstacles, mv) ==
    [k \in 1..Len(obstacles) |-> [obstacles[k] EXCEPT !.x = @ - mv[k]]]

\* countPassed without the passed flag.
RECURSIVE countPassed_unflagged(_, _)
countPassed_unflagged(s, k) ==
    IF k > Len(s.obstaclesRef) THEN s
    ELSE IF s.obstaclesRef[k].x <= BEHIND
         THEN countPassed_unflagged([s EXCEPT !.obstaclesRef[k].passed = TRUE,
                                              !.score = @ + 1], k + 1)
         ELSE countPassed_unflagged(s, k + 1)

\* "count score when passed", from obstacle k on.
RECURSIVE countPassed(_, _)
countPassed(s, k) ==
    IF k > Len(s.obstaclesRef) THEN s
    ELSE IF ~s.obstaclesRef[k].passed /\ s.obstaclesRef[k].x <= BEHIND
         THEN countPassed([s EXCEPT !.obstaclesRef[k].passed = TRUE, !.score = @ + 1], k + 1)
         ELSE countPassed(s, k + 1)

\* "clean up offscreen obstacles"
inView(obs) == obs.x > OFF

\* The AABB test of the player's box against one obstacle.
overlaps(player, obs) ==
    /\ obs.x \in {OVER, BEHIND}
    /\ \/ (obs.side = "ground" /\ player = GROUND)
       \/ (obs.side = "ceiling" /\ player = CEILING)
       \/ (obs.tall /\ player = MIDDLE)

collided(s) == \E k \in 1..Len(s.obstaclesRef) : overlaps(s.player, s.obstaclesRef[k])

\* loop(ts): spawn (a side, or "none"), the player moves fall lanes with
\* gravity, the obstacles move, passes are counted, the filter, the
\* collision check, and the request of the next frame.
gravityLoop(s, side, tall, fall, mv) ==
    LET dtPositive == s.lastTimeRef
        stamped == [s EXCEPT !.lastTimeRef = TRUE, !.rafPending = FALSE]
        spawned == IF side # "none" THEN spawnObstacle(stamped, side, tall) ELSE stamped
        target == spawned.player + (IF s.gravityDownRef THEN fall ELSE 0 - fall)
        fallen == [spawned EXCEPT !.player = IF target < CEILING THEN CEILING
                                             ELSE IF target > GROUND THEN GROUND
                                             ELSE target,
                                  !.obstaclesRef = moveObstacles(@, mv)]
        counted == countPassed(fallen, 1)
        kept == [counted EXCEPT !.obstaclesRef = SelectSeq(@, inView)]
    IN  IF collided(kept)
        THEN [kept EXCEPT !.gameOver = TRUE, !.running = FALSE, !.lastTimeRef = FALSE]
        ELSE [kept EXCEPT !.rafPending = s.runningRef]

\* Start button (disabled while running and not over).
GravityClickStart ==
    /\ ~(gr.running /\ ~gr.gameOver)
    /\ \E side \in {"ground", "ceiling"} : gr' = commitGravity(gravityStart(gr, side))
    /\ UNCHANGED exceptGr

\* Reset button.
GravityClickReset ==
    /\ gr' = commitGravity(gravityReset(gr))
    /\ UNCHANGED exceptGr

\* Space, ArrowUp, w, a click or a touch on the canvas.
GravityKey ==
    /\ \E side \in {"ground", "ceiling"} : gr' = commitGravity(flipGravity(gr, side))
    /\ UNCHANGED exceptGr

\* The requested frame arrives. The first frame after a start has dt = 0;
\* an obstacle is created only by a running loop, up to maxCreated in a
\* session and maxObstacles on the canvas; older obstacles stay ahead of
\* younger ones, and only the narrow zone BEHIND can be crossed in a frame.
GravityLoop(maxObstacles, maxCreated) ==
    /\ gr.rafPending
    /\ \E side \in {"none", "ground", "ceiling"}, tall \in BOOLEAN, fall \in 0..1,
          mv \in [1..maxObstacles -> 0..2] :
        LET after == gravityLoop(gr, side, tall, fall, mv)
        IN  /\ side # "none" => (gr.runningRef /\ gr.lastTimeRef
                                   /\ Len(gr.obstaclesRef) < maxObstacles
                                   /\ gr.created < maxCreated)
            /\ side = "none" => ~tall
            /\ ~gr.lastTimeRef => (fall = 0 /\ \A k \in 1..maxObstacles : mv[k] = 0)
            /\ \A k \in 1..maxObstacles : k > Len(gr.obstaclesRef) => mv[k] = 0
            /\ \A k \in 1..Len(gr.obstaclesRef) :
                  /\ mv[k] = 2 => gr.obstaclesRef[k].x = OVER
                  /\ gr.obstaclesRef[k].x - mv[k] >= OFF
                  /\ k > 1 => gr.obstaclesRef[k - 1].x - mv[k - 1]
                                <= gr.obstaclesRef[k].x - mv[k]
            /\ gr' = commitGravity(after)
    /\ UNCHANGED exceptGr

GravityNext(maxObstacles, maxCreated) ==
    \/ GravityClickStart
    \/ GravityClickReset
    \/ GravityKey
    \/ GravityLoop(maxObstacles, maxCreated)

---------------------------------------------------------------------------
(* NeonBreakoutBlitz *)

PADDLE_W == 100
PADDLE_H == 12
\* PADDLE_W * 1.5
PADDLE_WIDE == 150
BALL_R == 6
\* (GAME_W - 40) / cols - 2
BLOCK_W == 54
BLOCK_H == 20
BREAKOUT_LIVES == 3
\* paddle.y: GAME_H - 40
PADDLE_Y == 450
\* The bottom of the lowest block initLevel can make: row 9 of at most 10
\* rows, y = 60 + 9 * (blockH + 4), plus blockH. No block moves vertically.
BLOCK_LOW == 296

NewPaddle == [w |-> PADDLE_W, h |-> PADDLE_H]

NewBall == [radius |-> BALL_R, active |-> FALSE]

NoPowerUp == [laser |-> 0, expand |-> 0, slowmo |-> 0]

\* The component once mounted (the mount effect has called resetGame()).
\* Score, combo and particles are left out; a power-up timer holds the
\* frames it still lasts (the code holds milliseconds: 5000, 8000, 4000).
\* seen is the level of the render whose startGame requested the running
\* loop: the "level" that loop and the timers it sets read. levelTimers
\* holds, for each pending nextLevel timer, the level its closure reads.
BreakoutInit ==
    [ running |-> FALSE, gameOver |-> FALSE, lives |-> BREAKOUT_LIVES, level |-> 1,
      runningRef |-> FALSE, gameOverRef |-> FALSE,
      paddleRef |-> NewPaddle, ballsRef |-> <<NewBall>>,
      blocksRef |-> <<[w |-> BLOCK_W, h |-> BLOCK_H, health |-> 1]>>,
      powerUpsRef |-> <<>>, powerUpStateRef |-> NoPowerUp,
      lastTimeRef |-> FALSE, rafPending |-> FALSE,
      seen |-> 1, levelTimers |-> <<>> ]

\* The effects that copy running and gameOver into their refs.
commitBreakout(s) == [s EXCEPT !.runningRef = s.running, !.gameOverRef = s.gameOver]

\* initLevel(levelNum): the blocks of the level, each with its health.
initLevel(s, healths) ==
    [s EXCEPT !.blocksRef = [k \in 1..Len(healths) |->
                                [w |-> BLOCK_W, h |-> BLOCK_H, health |-> healths[k]]]]

\* resetGame(): no frame is cancelled and no timer is cleared.
breakoutReset(s, healths) ==
    initLevel([s EXCEPT !.paddleRef = NewPaddle, !.ballsRef = <<NewBall>>,
                        !.powerUpsRef = <<>>, !.powerUpStateRef = NoPowerUp,
                        !.lives = BREAKOUT_LIVES, !.level = 1,
                        !.gameOver = FALSE, !.running = FALSE], healths)

\* startGame(): the loop it requests is the one of the render that made
\* the handler, with the level displayed when the button was pressed.
breakoutStart(s, healths) ==
    [breakoutReset(s, healths) EXCEPT !.running = TRUE, !.lastTimeRef = FALSE,
                                      !.rafPending = TRUE, !.seen = s.level]

\* nextLevel() of a render that saw the given level: "level + 1" is taken
\* from that render, not from the state.
nextLevel(s, level, healths) ==
    initLevel([s EXCEPT !.level = level + 1, !.ballsRef = <<NewBall>>,
                        !.paddleRef.w = PADDLE_W, !.powerUpStateRef = NoPowerUp], healths)

\* activatePowerUp with an expand that sets no timer.
activatePowerUp_untimed(s, type) ==
    IF type = "expand" THEN [s EXCEPT !.paddleRef.w = PADDLE_WIDE] ELSE s

\* activatePowerUp(type)
activatePowerUp(s, type) ==
    CASE type = "multiball" ->
           IF \E k \in 1..Len(s.ballsRef) : s.ballsRef[k].active
           THEN LET ball == s.ballsRef[CHOOSE k \in 1..Len(s.ballsRef) :
                                          /\ s.ballsRef[k].active
                                          /\ \A j \in 1..(k - 1) : ~s.ballsRef[j].active]
                    copy == [radius |-> ball.radius, active |-> TRUE]
                IN  [s EXCEPT !.ballsRef = @ \o <<copy, copy>>]
           ELSE s
      [] type = "laser" -> [s EXCEPT !.powerUpStateRef.laser = PowerUpFrames]
      [] type = "expand" -> [s EXCEPT !.paddleRef.w = PADDLE_WIDE,
                                      !.powerUpStateRef.expand = PowerUpFrames]
      [] OTHER -> [s EXCEPT !.powerUpStateRef.slowmo = PowerUpFrames]

\* The head of loop(ts): the power-up timers run down by d frames, and the
\* paddle gets its width back when the expand timer runs out.
runTimers(s, d) ==
    LET down(t) == IF t > 0 THEN t - d ELSE t
        timed == [s EXCEPT !.powerUpStateRef.slowmo = down(@),
                           !.powerUpStateRef.laser = down(@),
                           !.powerUpStateRef.expand = down(@)]
    IN  IF s.powerUpStateRef.expand > 0 /\ timed.powerUpStateRef.expand <= 0
        THEN [timed EXCEPT !.paddleRef.w = PADDLE_W] ELSE timed

\* Ball k falls below the canvas: it is spliced; with no active ball left a
\* life is lost, and the game is over or a new ball waits on the paddle.
loseBall(s, k) ==
    LET left == [s EXCEPT !.ballsRef = splice(@, k)]
    IN  IF \E j \in 1..Len(left.ballsRef) : left.ballsRef[j].active THEN left
        ELSE IF s.lives - 1 <= 0
             THEN [left EXCEPT !.lives = @ - 1, !.gameOver = TRUE, !.running = FALSE]
             ELSE [left EXCEPT !.lives = @ - 1, !.ballsRef = Append(@, NewBall)]

\* hitBlock that sets no timer when the last block goes.
hitBlock_untimed(s, j, drop, byBall) ==
    IF s.blocksRef[j].health - 1 > 0
    THEN [s EXCEPT !.blocksRef[j].health = @ - 1]
    ELSE [s EXCEPT !.blocksRef = splice(@, j),
                   !.powerUpsRef = IF byBall /\ drop # "none" THEN Append(@, drop) ELSE @]

\* A ball hits block j, or the laser burns it: its health goes down, at 0
\* it is spliced and may drop a power-up; the last block of a level
\* destroyed by a ball sets the timer of nextLevel.
hitBlock(s, j, drop, byBall) ==
    IF s.blocksRef[j].health - 1 > 0
    THEN [s EXCEPT !.blocksRef[j].health = @ - 1]
    ELSE LET gone == [s EXCEPT !.blocksRef = splice(@, j),
                               !.powerUpsRef = IF byBall /\ drop # "none"
                                               THEN Append(@, drop) ELSE @]
         IN  IF byBall /\ gone.blocksRef = <<>>
             THEN [gone EXCEPT !.levelTimers = Append(@, s.seen)] ELSE gone

\* The power-up k reaches the paddle (it is activated) or the floor.
takePowerUp(s, k, caught) ==
    LET taken == [s EXCEPT !.powerUpsRef = splice(@, k)]
    IN  IF caught THEN activatePowerUp(taken, s.powerUpsRef[k]) ELSE taken

\* loop(ts) with what happens in the frame: nothing, a ball lost, a block
\* hit or burnt, a power-up caught or missed.
breakoutLoop(s, d, ev) ==
    LET stamped == [s EXCEPT !.lastTimeRef = TRUE, !.rafPending = FALSE]
        timed == runTimers(stamped, d)
        done == CASE ev.what = "lose" -> loseBall(timed, ev.k)
                  [] ev.what = "hit" -> hitBlock(timed, ev.k, ev.drop, TRUE)
                  [] ev.what = "burn" -> hitBlock(timed, ev.k, "none", FALSE)
                  [] ev.what = "catch" -> takePowerUp(timed, ev.k, TRUE)
                  [] ev.what = "miss" -> takePowerUp(timed, ev.k, FALSE)
                  [] OTHER -> timed
    IN  [done EXCEPT !.rafPending = s.runningRef /\ ~s.gameOverRef]

\* "block.y + block.h > paddle.y" of the laser pass: whether the laser
\* can reach the lowest block.
laserReaches == BLOCK_LOW > PADDLE_Y

\* The blocks a level can start with: tough blocks (health 2) come with
\* level 2.
Levels(levelNum) ==
    UNION {[1..n -> 1..(IF levelNum > 1 THEN 2 ELSE 1)] : n \in 1..BreakoutBlocks}

\* Start / Play Again button (disabled while running and not over). The
\* model follows games started below level BreakoutLevels.
BreakoutClickStart ==
    /\ ~(nb.running /\ ~nb.gameOver)
    /\ nb.level < BreakoutLevels
    /\ \E healths \in Levels(1) : nb' = commitBreakout(breakoutStart(nb, healths))
    /\ UNCHANGED exceptNb

\* Reset button.
BreakoutClickReset ==
    /\ \E healths \in Levels(1) : nb' = commitBreakout(breakoutReset(nb, healths))
    /\ UNCHANGED exceptNb

\* A click on the canvas launches the waiting ball.
handleClick ==
    /\ nb.runningRef /\ ~nb.gameOverRef
    /\ \E k \in 1..Len(nb.ballsRef) :
          /\ ~nb.ballsRef[k].active
          /\ \A j \in 1..(k - 1) : nb.ballsRef[j].active
          /\ nb' = [nb EXCEPT !.ballsRef[k].active = TRUE]
    /\ UNCHANGED exceptNb

\* The timer set when the last block went: nextLevel(), if running.
nextLevelTimer ==
    /\ nb.levelTimers # <<>>
    /\ LET level == Head(nb.levelTimers) IN
       \E healths \in Levels(level + 1) :
          nb' = IF nb.runningRef
                THEN commitBreakout([nextLevel(nb, level, healths)
                                        EXCEPT !.levelTimers = Tail(@)])
                ELSE [nb EXCEPT !.levelTimers = Tail(@)]
    /\ UNCHANGED exceptNb

\* The requested frame arrives; whats and drops are the events and the
\* power-ups (of spawnPowerUp) a frame may bring.
BreakoutLoop(whats, drops) ==
    /\ nb.rafPending
    /\ \E d \in 0..1, what \in whats, k \in 1..3, drop \in drops :
        LET ev == [what |-> what, k |-> k, drop |-> drop]
            after == breakoutLoop(nb, d, ev)
        IN  /\ d = 1 => nb.lastTimeRef
            /\ what # "none" => nb.lastTimeRef
            /\ what = "none" => k = 1
            /\ what # "hit" => drop = "none"
            /\ what = "lose" => k <= Len(nb.ballsRef) /\ nb.ballsRef[k].active
            /\ what \in {"hit", "burn"} => k <= Len(nb.blocksRef)
            /\ what = "hit" => (\E j \in 1..Len(nb.ballsRef) : nb.ballsRef[j].active)
            /\ what = "hit" => (drop = "none" \/ Len(nb.powerUpsRef) < BreakoutPowerUps)
            /\ what = "burn" => nb.powerUpStateRef.laser > 0 /\ laserReaches
            /\ what \in {"catch", "miss"} => k <= Len(nb.powerUpsRef)
            /\ Len(after.ballsRef) <= BreakoutBalls
            /\ Len(after.levelTimers) <= 1
            /\ nb' = commitBreakout(after)
    /\ UNCHANGED exceptNb

BreakoutNext ==
    \/ BreakoutClickStart
    \/ BreakoutClickReset
    \/ handleClick
    \/ nextLevelTimer
    \/ BreakoutLoop({"none", "lose", "hit", "burn", "catch", "miss"},
                    {"none", "multiball", "laser", "expand", "slowmo"})

\* The game without power-ups: spawnPowerUp drops none.
LevelNext ==
    \/ BreakoutClickStart
    \/ BreakoutClickReset
    \/ handleClick
    \/ nextLevelTimer
    \/ BreakoutLoop({"none", "lose", "hit"}, {"none"})

---------------------------------------------------------------------------
(* The event listeners of a component *)

\* The listeners registered on the canvas and on the window, by event type:
\* a named handler is registered once however often it is added; every
\* evaluation of a function expression is a new listener. dragging is the
\* flag the pointer handlers of the latest effect run share, pos the
\* position they wrote last (playerRef, or the last point of swipeRef).
NewListeners(game) ==
    [ game |-> game, mounted |-> FALSE, running |-> FALSE, dragging |-> FALSE,
      pointers |-> <<>>, pos |-> 0,
      canvas |-> [pointerdown |-> 0, touchstart |-> 0],
      window |-> [pointermove |-> 0, pointerup |-> 0, keydown |-> 0,
                  touchmove |-> 0, touchend |-> 0] ]

---------------------------------------------------------------------------
(* Particles *)

\* The particles of a game (particlesRef), the clock performance.now()
\* reads, the number of particles made so far, and what the last frame
\* drew: for every particle the alpha it was drawn with, as the pair
\* <<numerator, denominator>>.
NewParticles(game) ==
    [ game |-> game, now |-> 0, made |-> 0, particles |-> <<>>, drawn |-> <<>> ]

---------------------------------------------------------------------------
(* Movement and hit tests *)

\* Positions and lengths are whole numbers of fortieths of a pixel.
Px(n) == n * 40

\* A moving bullet e (x, y in fortieths of a pixel, vx, vy in pixels per
\* second, radius r) and the circle it is tested against, centred at the
\* origin (radius); dt is the dt of the last frame, in hundredths of a
\* second.
NewGeo(game, at, vel) ==
    [ game |-> game,
      e |-> [x |-> Px(at[1]), y |-> Px(at[2]), vx |-> vel[1], vy |-> vel[2],
             r |-> IF game = "tank" THEN Px(4) ELSE Px(BULLET_R)],
      radius |-> IF game = "tank" THEN Px(24) ELSE Px(PLAYER_R),
      slowActive |-> FALSE, dt |-> 0, frames |-> 0 ]

---------------------------------------------------------------------------
(* FlappyBird: the pipes *)

PIPE_WIDTH == 60

\* stateRef and the score of the component right after construction.
\* Lengths are whole numbers of half pixels; a pipe is its x and, to tell
\* how often it was scored, the count n, which the program does not keep.
NewFlappy ==
    [ running |-> FALSE, gameOver |-> FALSE, score |-> 0,
      canvasWidth |-> 0, pipes |-> <<>>, scoreRecordedPipes |-> {} ]

---------------------------------------------------------------------------
(* TicTacToe *)

\* The component right after construction: an empty board (null is "-"),
\* X to move, against the computer, the human playing X.
NewTicTacToe ==
    [ board |-> [i \in 0..8 |-> "-"], isXNext |-> TRUE,
      mode |-> "single", playerSymbol |-> "X" ]

---------------------------------------------------------------------------
(* MemoryMatch *)

\* The deals of initGame: which image each card id shows, every image on
\* two cards.
Shuffles ==
    {img \in [0..(2 * MemoryPairs - 1) -> 1..MemoryPairs] :
        \A p \in 1..MemoryPairs : Cardinality({i \in DOMAIN img : img[i] = p}) = 2}

\* The component once mounted (the mount effect has called initGame), with
\* the cards dealt as img says. timers holds the timers set by the effect
\* on flipped that have not fired: the win check of a pair (kind "win", 100
\* ms) or the flip-back of two cards (kind "back", 900 ms).
NewMemory(img, limit) ==
    [ cards |-> [i \in DOMAIN img |->
                    [img |-> img[i], isFlipped |-> FALSE, isMatched |-> FALSE]],
      flipped |-> <<>>, moves |-> 0,
      moveLimit |-> limit, remaining |-> limit,
      isWon |-> FALSE, isLost |-> FALSE,
      timers |-> <<>> ]

\* The mounted component, the pairs dealt side by side.
MemoryInit ==
    NewMemory([i \in 0..(2 * MemoryPairs - 1) |-> (i \div 2) + 1], MemoryLimitMax)

---------------------------------------------------------------------------
(* SimonSays *)

\* The component right after construction. playbacks holds the calls of
\* showSequence that are scheduled or running: the sequence to show and
\* how many of its colours were lit (0: the timer has not fired yet).
\* Score, combo, speed, the lit button and the sound are left out.
NewSimon ==
    [ sequence |-> <<>>, playerSequence |-> <<>>,
      isShowingSequence |-> FALSE, gameOver |-> FALSE, isPlaying |-> FALSE,
      playbacks |-> <<>> ]

---------------------------------------------------------------------------
(* Snake *)

GRID_SIZE == 15

\* The component right after construction. moved is the direction of the
\* snake's last move and ticks the number of interval callbacks since the
\* game began; the program keeps neither.
NewSnake ==
    [ snake |-> <<[x |-> 7, y |-> 7]>>, food |-> [x |-> 5, y |-> 5],
      direction |-> "RIGHT", isGameOver |-> FALSE, score |-> 0,
      isPlaying |-> FALSE,
      moved |-> "NONE", ticks |-> 0 ]

---------------------------------------------------------------------------
(* The drawing context and the loop *)

\* ctx: getContext("2d") gives a context now; hasLoop: the latest run of
\* the loop effect got one (and so set up step and its cleanup); raf: the
\* frame requested ("loop": loop or step, "stamp": the stamping frame of
\* BulletDodge's start()); elapsed, drawn: the simulation steps and the
\* renderings since the start.
NewSurface(game, ctx) ==
    [ game |-> game, ctx |-> ctx, running |-> FALSE,
      hasLoop |-> ctx /\ game # "tank",
      raf |-> IF ctx /\ game = "dodge" THEN "loop" ELSE "none",
      elapsed |-> 0, drawn |-> 0 ]

---------------------------------------------------------------------------
(* The identifiers of spawned entities *)

\* idRef: the next identifier; entities: the identifiers of the bullets
\* (BulletDodge) or fruits (SliceDash) in the collection, in its order;
\* aimTimers: the timers of aimed shots not yet fired.
NewSpawner(game) ==
    [game |-> game, running |-> FALSE, idRef |-> 1, entities |-> <<>>, aimTimers |-> 0]

\* push({ id: idRef.current++, ... })
pushEntity(s) == [s EXCEPT !.entities = Append(@, s.idRef), !.idRef = @ + 1]

\* start(): BulletDodge empties the collection and sets idRef back to 1;
\* SliceDash empties the collection and leaves idRef alone.
spawnerStart(s) ==
    [s EXCEPT !.running = TRUE, !.entities = <<>>,
              !.idRef = IF s.game = "dodge" THEN 1 ELSE @]

\* reset(): both empty the collection; neither touches idRef.
spawnerReset(s) == [s EXCEPT !.running = FALSE, !.entities = <<>>]

---------------------------------------------------------------------------
(* The removal passes of the loops *)

\* The collections a pass is applied to: up to ExpireLen entities, each
\* with the position it was created at and a value the predicate reads
\* (where it is, the health it has left).
ExpireValues == 0..ExpireTop

Collections ==
    UNION {[1..n -> ExpireValues] : n \in 0..ExpireLen}

Entities(values) == [k \in 1..Len(values) |-> [id |-> k, v |-> values[k]]]

\* No collection, no predicate: the state of the passes while another
\* component is explored.
NoExpire == [coll |-> <<>>, pred |-> {}, hit |-> 0, passes |-> 0]

\* What a pass removes: the entities whose value the predicate holds of,
\* and the block that was hit.
satisfies(e, pred, hit) == e.v \in pred \/ e.id = hit

\* bullets.filter(b => in range): BulletDodge, SliceDash, GravitySwayRunner.
filterPass(coll, pred, hit) ==
    SelectSeq(coll, LAMBDA e : ~satisfies(e, pred, hit))

\* The reverse loop with the skipped-index fault: after a removal it steps
\* over the next entity.
RECURSIVE splicePass_skipping(_, _, _, _)
splicePass_skipping(coll, i, pred, hit) ==
    IF i < 1 THEN coll
    ELSE IF satisfies(coll[i], pred, hit)
         THEN splicePass_skipping(splice(coll, i), i - 2, pred, hit)
         ELSE splicePass_skipping(coll, i - 1, pred, hit)

\* for (let i = length - 1; i >= 0; i--) { ... splice(i, 1) ... }: the
\* bullets of TankBattle, the balls, power-ups and particles of
\* NeonBreakoutBlitz.
RECURSIVE splicePass(_, _, _, _)
splicePass(coll, i, pred, hit) ==
    IF i < 1 THEN coll
    ELSE IF satisfies(coll[i], pred, hit)
         THEN splicePass(splice(coll, i), i - 1, pred, hit)
         ELSE splicePass(coll, i - 1, pred, hit)

\* The explosive block j of NeonBreakoutBlitz: the loop over the other
\* blocks, from the last index to the first, splices those within reach
\* and moves j along with every removal below it; then block j is spliced.
RECURSIVE explodePass(_, _, _, _)
explodePass(blocks, j, k, pred) ==
    IF k < 1 THEN splice(blocks, j)
    ELSE IF k = j THEN explodePass(blocks, j, k - 1, pred)
    ELSE IF blocks[k].v \in pred
         THEN explodePass(splice(blocks, k), IF k < j THEN j - 1 ELSE j, k - 1, pred)
         ELSE explodePass(blocks, j, k - 1, pred)

\* Any collection, any predicate.
ExpireInit ==
    /\ tb = TankBattleInit /\ bd = BulletDodgeInit /\ clock = NewClock("tank")
    /\ sd = SliceDashInit /\ gr = GravityInit /\ sf = NewSurface("tank", TRUE)
    /\ ids = NewSpawner("dodge")
    /\ nb = BreakoutInit
    /\ ls = NewListeners("dodge")
    /\ pt = NewParticles("breakout")
    /\ geo = NewGeo("tank", <<100, 100>>, <<50, 0>>)
    /\ fb = NewFlappy
    /\ ttt = NewTicTacToe
    /\ mm = MemoryInit
    /\ ss = NewSimon
    /\ sn = NewSnake
    /\ \E values \in Collections, pred \in SUBSET ExpireValues :
          ex = [coll |-> Entities(values), pred |-> pred, hit |-> 0, passes |-> 0]

\* The filter of a frame.
ExpireFilter ==
    /\ ex.passes < ExpirePasses
    /\ ex' = [ex EXCEPT !.coll = filterPass(@, ex.pred, ex.hit), !.passes = @ + 1]
    /\ UNCHANGED exceptEx

\* The reverse loop of a frame.
ExpireSplice ==
    /\ ex.passes < ExpirePasses
    /\ ex' = [ex EXCEPT !.coll = splicePass(@, Len(@), ex.pred, ex.hit), !.passes = @ + 1]
    /\ UNCHANGED exceptEx

\* A ball destroys the explosive block j.
ExpireExplode ==
    /\ ex.passes = 0
    /\ \E j \in 1..Len(ex.coll) :
          ex' = [ex EXCEPT !.coll = explodePass(@, j, Len(@), ex.pred),
                           !.hit = ex.coll[j].id, !.passes = 1]
    /\ UNCHANGED exceptEx

ExpireNext ==
    \/ ExpireFilter
    \/ ExpireSplice
    \/ ExpireExplode

---------------------------------------------------------------------------
(* The drawing context and the loop: effects, handlers and frames *)

\* The loop effect of BulletDodge and of FlappyBird runs again (running has
\* changed): the cleanup of the run before it, if that run got as far as
\* returning one, cancels the requested frame; without a context the
\* effect returns before it defines step; with one, BulletDodge requests
\* step and FlappyBird requests it if running.
loopEffect(s) ==
    LET cleaned == IF s.hasLoop THEN [s EXCEPT !.raf = "none"] ELSE s
    IN  IF ~s.ctx THEN [cleaned EXCEPT !.hasLoop = FALSE]
        ELSE [cleaned EXCEPT !.hasLoop = TRUE,
                             !.raf = IF s.game = "dodge" \/ s.running THEN "loop" ELSE @]

\* startGame() of TankBattle requests loop itself; start() of BulletDodge
\* requests the stamping frame; start() of FlappyBird requests nothing.
surfaceStart(s) ==
    LET started == [s EXCEPT !.running = TRUE, !.elapsed = 0, !.drawn = 0]
    IN  CASE s.game = "tank" -> [started EXCEPT !.raf = "loop"]
          [] s.game = "dodge" -> loopEffect([started EXCEPT !.raf = "stamp"])
          [] OTHER -> loopEffect(started)

\* Reset, or the game is lost: running is cleared. TankBattle cancels
\* nothing; FlappyBird's second effect cancels the frame.
surfaceStop(s) ==
    LET stopped == [s EXCEPT !.running = FALSE]
    IN  CASE s.game = "tank" -> stopped
          [] s.game = "dodge" -> loopEffect(stopped)
          [] OTHER -> [loopEffect(stopped) EXCEPT !.raf = "none"]

\* The frame: the stamping frame only stamps; loop and step advance the
\* simulation, draw (TankBattle's drawFrame asks for the context and
\* returns without it; step draws on the context of its effect) and
\* request the next frame while running.
surfaceFrame(s) ==
    IF s.raf = "stamp" THEN [s EXCEPT !.raf = "none"]
    ELSE [s EXCEPT !.elapsed = @ + 1,
                   !.drawn = IF s.game = "tank" /\ ~s.ctx THEN @ ELSE @ + 1,
                   !.raf = IF s.running THEN "loop" ELSE "none"]

\* A component of one of the three games, with or without a context.
SurfaceInit ==
    /\ tb = TankBattleInit /\ bd = BulletDodgeInit /\ clock = NewClock("tank")
    /\ sd = SliceDashInit /\ gr = GravityInit /\ ex = NoExpire
    /\ ids = NewSpawner("dodge")
    /\ nb = BreakoutInit
    /\ ls = NewListeners("dodge")
    /\ pt = NewParticles("breakout")
    /\ geo = NewGeo("tank", <<100, 100>>, <<50, 0>>)
    /\ fb = NewFlappy
    /\ ttt = NewTicTacToe
    /\ mm = MemoryInit
    /\ ss = NewSimon
    /\ sn = NewSnake
    /\ \E game \in {"tank", "dodge", "flappy"}, ctx \in BOOLEAN :
          sf = NewSurface(game, ctx)

SurfaceStart ==
    /\ ~sf.running
    /\ sf' = surfaceStart(sf)
    /\ UNCHANGED exceptSf

SurfaceStop ==
    /\ sf.running
    /\ sf' = surfaceStop(sf)
    /\ UNCHANGED exceptSf

SurfaceFrame ==
    /\ sf.raf # "none"
    /\ sf.elapsed < SurfaceTicks
    /\ sf' = surfaceFrame(sf)
    /\ UNCHANGED exceptSf

\* The context is lost or comes back.
SurfaceChange ==
    /\ sf' = [sf EXCEPT !.ctx = ~@]
    /\ UNCHANGED exceptSf

SurfaceNext ==
    \/ SurfaceStart
    \/ SurfaceStop
    \/ SurfaceFrame
    \/ SurfaceChange

---------------------------------------------------------------------------
(* The identifiers of spawned entities: starts, spawns and removals *)

\* One game of the two.
SpawnerInit ==
    /\ tb = TankBattleInit /\ bd = BulletDodgeInit /\ clock = NewClock("tank")
    /\ sd = SliceDashInit /\ gr = GravityInit /\ ex = NoExpire
    /\ sf = NewSurface("tank", TRUE) /\ nb = BreakoutInit
    /\ ls = NewListeners("dodge")
    /\ pt = NewParticles("breakout")
    /\ geo = NewGeo("tank", <<100, 100>>, <<50, 0>>)
    /\ fb = NewFlappy
    /\ ttt = NewTicTacToe
    /\ mm = MemoryInit
    /\ ss = NewSimon
    /\ sn = NewSnake
    /\ \E game \in {"dodge", "slice"} : ids = NewSpawner(game)

\* Start (button, key or pointer), when the game is not running.
SpawnerStart ==
    /\ ~ids.running
    /\ ids' = spawnerStart(ids)
    /\ UNCHANGED exceptIds

SpawnerReset ==
    /\ ids' = spawnerReset(ids)
    /\ UNCHANGED exceptIds

\* The game is lost: running is cleared, the collection stays.
SpawnerOver ==
    /\ ids.running
    /\ ids' = [ids EXCEPT !.running = FALSE]
    /\ UNCHANGED exceptIds

\* A frame of the running game spawns: a falling bullet or a fruit at once,
\* aimed shots by timers.
Spawn ==
    /\ ids.running
    /\ \/ /\ Len(ids.entities) < SpawnerEntities
          /\ ids.idRef <= SpawnerIds
          /\ ids' = pushEntity(ids)
       \/ /\ ids.game = "dodge"
          /\ ids.aimTimers = 0
          /\ ids' = [ids EXCEPT !.aimTimers = SpawnerShots]
    /\ UNCHANGED exceptIds

\* A timer of an aimed shot fires, whatever has happened since it was set.
SpawnDelayed ==
    /\ ids.aimTimers > 0
    /\ Len(ids.entities) < SpawnerEntities
    /\ ids.idRef <= SpawnerIds
    /\ ids' = [pushEntity(ids) EXCEPT !.aimTimers = @ - 1]
    /\ UNCHANGED exceptIds

\* A frame removes the oldest entity (out of range, hit, sliced).
SpawnerRemove ==
    /\ ids.entities # <<>>
    /\ ids' = [ids EXCEPT !.entities = Tail(@)]
    /\ UNCHANGED exceptIds

SpawnerNext ==
    \/ SpawnerStart
    \/ SpawnerReset
    \/ SpawnerOver
    \/ Spawn
    \/ SpawnDelayed
    \/ SpawnerRemove

---------------------------------------------------------------------------
(* The event listeners of a component: effects and events *)

\* The input effect runs. SliceDash (README.md, second listing) adds three
\* named pointer handlers and three function expressions for touch;
\* BulletDodge adds three named pointer handlers, a function expression
\* for touchstart and the named keydown handler.
inputEffect(s) ==
    IF s.game = "slice"
    THEN [s EXCEPT !.dragging = FALSE,
                   !.canvas.pointerdown = 1, !.canvas.touchstart = @ + 1,
                   !.window.pointermove = 1, !.window.pointerup = 1,
                   !.window.touchmove = @ + 1, !.window.touchend = @ + 1]
    ELSE [s EXCEPT !.dragging = FALSE,
                   !.canvas.pointerdown = 1, !.canvas.touchstart = @ + 1,
                   !.window.pointermove = 1, !.window.pointerup = 1,
                   !.window.keydown = 1]

\* The cleanup of the input effect: the named handlers are removed;
\* BulletDodge's removeEventListener("touchstart", () => {}) names a
\* function that was never added and removes nothing.
inputCleanup(s) ==
    [s EXCEPT !.canvas.pointerdown = 0,
              !.window.pointermove = 0, !.window.pointerup = 0,
              !.window.keydown = 0]

\* A component of one of the two games, not yet mounted.
ListenersInit ==
    /\ tb = TankBattleInit /\ bd = BulletDodgeInit /\ clock = NewClock("tank")
    /\ sd = SliceDashInit /\ gr = GravityInit /\ ex = NoExpire
    /\ sf = NewSurface("tank", TRUE) /\ ids = NewSpawner("dodge") /\ nb = BreakoutInit
    /\ \E game \in {"dodge", "slice"} : ls = NewListeners(game)
    /\ pt = NewParticles("breakout")
    /\ geo = NewGeo("tank", <<100, 100>>, <<50, 0>>)
    /\ fb = NewFlappy
    /\ ttt = NewTicTacToe
    /\ mm = MemoryInit
    /\ ss = NewSimon
    /\ sn = NewSnake

\* The component is mounted on a new canvas.
ListenersMount ==
    /\ ~ls.mounted
    /\ ls.canvas.touchstart + ls.window.touchmove < ListenerCap
    /\ ls' = inputEffect([ls EXCEPT !.mounted = TRUE, !.running = FALSE,
                                    !.canvas = [pointerdown |-> 0, touchstart |-> 0]])
    /\ UNCHANGED exceptLs

\* The game starts or stops: BulletDodge's input effect depends on running
\* and runs again, cleanup first; SliceDash's has no dependency.
ListenersToggle ==
    /\ ls.mounted
    /\ ls.canvas.touchstart + ls.window.touchmove < ListenerCap
    /\ LET toggled == [ls EXCEPT !.running = ~@]
       IN  ls' = IF ls.game = "dodge" THEN inputEffect(inputCleanup(toggled)) ELSE toggled
    /\ UNCHANGED exceptLs

\* pointerdown on the canvas, pointerup on the window.
ListenersPointer ==
    /\ ls.mounted
    /\ ls.canvas.pointerdown > 0 /\ ls.window.pointerup > 0
    /\ ls' = [ls EXCEPT !.dragging = ~@]
    /\ UNCHANGED exceptLs

\* The component is stopped and unmounted.
ListenersUnmount ==
    /\ ls.mounted
    /\ ls' = inputCleanup([ls EXCEPT !.mounted = FALSE, !.running = FALSE,
                                     !.dragging = FALSE])
    /\ UNCHANGED exceptLs

\* One pointer event reaches the handlers of the input effect (onDown /
\* onPointerDown, onMove / onPointerMove, onUp / onPointerUp): every
\* finger is a pointer of its own, and no handler looks at which one.
\* pointers lists the fingers on the screen, first touch first.
PointerEvent(type, id, p) ==
    /\ ls.mounted
    /\ \/ /\ type = "down"
          /\ ls.canvas.pointerdown > 0
          /\ Len(ls.pointers) < TouchPointers
          /\ \A i \in 1..Len(ls.pointers) : ls.pointers[i] # id
          /\ ls' = [ls EXCEPT !.pointers = Append(@, id),
                              !.dragging = TRUE, !.pos = p]
       \/ /\ type = "move"
          /\ ls.window.pointermove > 0
          /\ \E i \in 1..Len(ls.pointers) : ls.pointers[i] = id
          /\ ls' = [ls EXCEPT !.pos = IF ls.dragging THEN p ELSE @]
       \/ /\ type = "up"
          /\ ls.window.pointerup > 0
          /\ \E i \in 1..Len(ls.pointers) : ls.pointers[i] = id
          /\ ls' = [ls EXCEPT !.pointers = SelectSeq(@, LAMBDA q : q # id),
                              !.dragging = FALSE]
    /\ UNCHANGED exceptLs

\* The component is mounted, then fingers come down, move and lift.
TouchNext ==
    \/ ListenersMount
    \/ \E type \in {"down", "move", "up"}, id \in 1..TouchPointers, p \in 0..TouchCells :
           PointerEvent(type, id, p)

ListenersNext ==
    \/ ListenersMount
    \/ ListenersToggle
    \/ ListenersPointer
    \/ ListenersUnmount

---------------------------------------------------------------------------
(* Particles: birth, ageing and drawing *)

\* explode (NeonBreakoutBlitz) makes a particle of age 0 that carries
\* life and maxLife; spawnParticles (SliceDash) makes one that carries the
\* time of its birth and, as life, the time it is to last.
explode(s, m) ==
    [s EXCEPT !.made = @ + 1,
              !.particles = Append(@, IF s.game = "breakout"
                                      THEN [life |-> 0, maxLife |-> m]
                                      ELSE [born |-> s.now, life |-> m])]

\* The particle pass of a frame. NeonBreakoutBlitz adds dt to the life of
\* every particle and removes it when life >= maxLife; SliceDash keeps
\* the particles whose age by the clock is under their life. gap is the
\* time since the previous frame, d the clamped dt of this one.
particlePass_strict(s, gap, d) ==
    IF s.game = "breakout"
    THEN [s EXCEPT !.particles =
             SelectSeq([i \in 1..Len(@) |-> [@[i] EXCEPT !.life = @ + d]],
                       LAMBDA p : ~(p.life > p.maxLife))]
    ELSE [s EXCEPT !.now = @ + gap,
                   !.particles = SelectSeq(@, LAMBDA p : s.now + gap - p.born <= p.life)]

particlePass(s, gap, d) ==
    IF s.game = "breakout"
    THEN [s EXCEPT !.particles =
             SelectSeq([i \in 1..Len(@) |-> [@[i] EXCEPT !.life = @ + d]],
                       LAMBDA p : ~(p.life >= p.maxLife))]
    ELSE [s EXCEPT !.now = @ + gap,
                   !.particles = SelectSeq(@, LAMBDA p : s.now + gap - p.born < p.life)]

\* The particles are drawn: alpha = 1 - life / maxLife in NeonBreakoutBlitz,
\* Math.max(0, 1 - (performance.now() - born) / life) in SliceDash, where
\* the clock is read again, lag after the particle pass read it.
drawParticles(s, lag) ==
    IF s.game = "breakout"
    THEN [s EXCEPT !.drawn = [i \in 1..Len(s.particles) |->
             <<s.particles[i].maxLife - s.particles[i].life, s.particles[i].maxLife>>]]
    ELSE [s EXCEPT !.now = @ + lag,
                   !.drawn = [i \in 1..Len(s.particles) |->
             LET age == s.now + lag - s.particles[i].born
             IN  <<IF age > s.particles[i].life THEN 0 ELSE s.particles[i].life - age,
                   s.particles[i].life>>]]

\* One of the two games, no particle yet.
ParticleInit ==
    /\ tb = TankBattleInit /\ bd = BulletDodgeInit /\ clock = NewClock("tank")
    /\ sd = SliceDashInit /\ gr = GravityInit /\ ex = NoExpire
    /\ sf = NewSurface("tank", TRUE) /\ ids = NewSpawner("dodge") /\ nb = BreakoutInit
    /\ ls = NewListeners("dodge")
    /\ \E game \in {"breakout", "slice"} : pt = NewParticles(game)
    /\ geo = NewGeo("tank", <<100, 100>>, <<50, 0>>)
    /\ fb = NewFlappy
    /\ ttt = NewTicTacToe
    /\ mm = MemoryInit
    /\ ss = NewSimon
    /\ sn = NewSnake

\* A block breaks, a fruit is cut: a particle is made.
ParticleSpawn ==
    /\ pt.made < ParticleCount
    /\ \E m \in 1..ParticleLife : pt' = explode(pt, m)
    /\ UNCHANGED exceptPt

\* A frame: the particle pass, then the drawing.
ParticleFrame(gap, d, lag) ==
    /\ d <= gap
    /\ pt.game = "slice" => pt.now + gap + lag <= ParticleHorizon
    /\ pt' = drawParticles(particlePass(pt, gap, d), lag)
    /\ UNCHANGED exceptPt

ParticleNext ==
    \/ ParticleSpawn
    \/ \E gap \in 0..ParticleGap, d \in 0..ParticleStep, lag \in 0..ParticleLag :
           ParticleFrame(gap, d, lag)

---------------------------------------------------------------------------
(* Movement and hit tests: the functions and the frames *)

\* TankBattle's bullet against a tank:
\* Math.hypot(b.x - tank.x, b.y - tank.y) < tank.size.
hitsTank(bx, by, tx, ty, size) ==
    (bx - tx) * (bx - tx) + (by - ty) * (by - ty) < size * size

\* BulletDodge's circleRectCollide.
circleRectCollide(cx, cy, cr, rx, ry, rw, rh) ==
    LET dx == cx - clamp(cx, rx, rx + rw)
        dy == cy - clamp(cy, ry, ry + rh)
    IN  dx * dx + dy * dy <= cr * cr

\* TankBattle's circleRectCollision.
circleRectCollision(cx, cy, r, rx, ry, rw, rh) ==
    LET testX == IF rx > Min(cx, rx + rw) THEN rx ELSE Min(cx, rx + rw)
        testY == IF ry > Min(cy, ry + rh) THEN ry ELSE Min(cy, ry + rh)
        distX == cx - testX
        distY == cy - testY
    IN  distX * distX + distY * distY < r * r

\* FlappyBird's intersectsPipe.
intersectsPipe(cx, cy, r, px, py, pw, ph) ==
    LET closestX == IF px > Min(cx, px + pw) THEN px ELSE Min(cx, px + pw)
        closestY == IF py > Min(cy, py + ph) THEN py ELSE Min(cy, py + ph)
        dx == cx - closestX
        dy == cy - closestY
    IN  dx * dx + dy * dy < r * r

\* The bullet moved without dt: "b.x += b.vx".
advanceEntity_perFrame(game, e, dt, slowActive) ==
    [e EXCEPT !.x = @ + Px(e.vx), !.y = @ + Px(e.vy)]

\* "b.x += b.vx * dt; b.y += b.vy * dt" in TankBattle,
\* "b.x += (slowActive ? b.vx * 0.45 : b.vx) * dt" in BulletDodge;
\* dt hundredths of a second, the way in fortieths of a pixel.
advanceEntity(game, e, dt, slowActive) ==
    IF game = "dodge" /\ slowActive
    THEN [e EXCEPT !.x = @ + (e.vx * 9 * dt) \div 50, !.y = @ + (e.vy * 9 * dt) \div 50]
    ELSE [e EXCEPT !.x = @ + (e.vx * 2 * dt) \div 5, !.y = @ + (e.vy * 2 * dt) \div 5]

\* A bullet of TankBattle or of BulletDodge, somewhere, with some velocity.
GeoInit ==
    /\ tb = TankBattleInit /\ bd = BulletDodgeInit /\ clock = NewClock("tank")
    /\ sd = SliceDashInit /\ gr = GravityInit /\ ex = NoExpire
    /\ sf = NewSurface("tank", TRUE) /\ ids = NewSpawner("dodge") /\ nb = BreakoutInit
    /\ ls = NewListeners("dodge") /\ pt = NewParticles("breakout")
    /\ \E game \in {"tank", "dodge"},
          at \in {<<100, 100>>, <<15, 0>>, <<25, 0>>},
          vel \in {<<50, 0>>, <<-50, 0>>, <<0, 50>>} :
           geo = NewGeo(game, at, vel)
    /\ fb = NewFlappy
    /\ ttt = NewTicTacToe
    /\ mm = MemoryInit
    /\ ss = NewSimon
    /\ sn = NewSnake

\* A frame moves the bullet; in BulletDodge the slow-time power-up may be
\* active (performance.now() < slowUntil).
GeoAdvance(dt, slowActive) ==
    /\ geo.frames < GeoFrames
    /\ slowActive => geo.game = "dodge"
    /\ geo' = [geo EXCEPT !.e = advanceEntity(geo.game, geo.e, dt, slowActive),
                          !.slowActive = slowActive, !.dt = dt, !.frames = @ + 1]
    /\ UNCHANGED exceptGeo

GeoNext == \E dt \in {0, 2, 10}, slowActive \in BOOLEAN : GeoAdvance(dt, slowActive)

---------------------------------------------------------------------------
(* FlappyBird: start and step *)

\* "Math.max(80, s.canvasWidth * 0.25)", canvasWidth in half pixels.
birdX(s) == IF 2 * 80 > s.canvasWidth \div 4 THEN 2 * 80 ELSE s.canvasWidth \div 4

\* start(): resetGameState(w, h), then the first pipe at w + PIPE_WIDTH.
FlappyStart ==
    /\ ~fb.running
    /\ \E w \in {320, 540} :
           fb' = [ running |-> TRUE, gameOver |-> FALSE, score |-> 0,
                   canvasWidth |-> 2 * w,
                   pipes |-> <<[x |-> 2 * (w + PIPE_WIDTH), n |-> 0]>>,
                   scoreRecordedPipes |-> {} ]
    /\ UNCHANGED exceptFb

\* step(now): a pipe is spawned when the interval is over (due); the
\* pipes move left by PIPE_SPEED * dt (d); those off screen are removed; a
\* pipe whose centre is left of the bird and whose Math.round(p.x) is not
\* in scoreRecordedPipes is recorded by that number and scored; the bird
\* may hit something (crash), which ends the game.
FlappyStep(d, due, crash) ==
    /\ fb.running
    /\ due => Len(fb.pipes) < FlappyPipes
    /\ LET spawned == IF due
                      THEN Append(fb.pipes, [x |-> fb.canvasWidth + 2 * PIPE_WIDTH, n |-> 0])
                      ELSE fb.pipes
           moved == [k \in 1..Len(spawned) |-> [spawned[k] EXCEPT !.x = @ - d]]
           kept == SelectSeq(moved, LAMBDA p : ~(p.x + 2 * PIPE_WIDTH < -(2 * 40)))
           round(x) == (x + 1) \div 2
           \* the filter callback, pipe by pipe, from the first
           scored[k \in 0..Len(kept)] ==
               IF k = 0 THEN [pipes |-> <<>>, rec |-> fb.scoreRecordedPipes]
               ELSE LET p == kept[k]
                        sofar == scored[k - 1]
                    IN  IF p.x + PIPE_WIDTH < birdX(fb) /\ round(p.x) \notin sofar.rec
                        THEN [pipes |-> Append(sofar.pipes, [p EXCEPT !.n = @ + 1]),
                              rec |-> sofar.rec \cup {round(p.x)}]
                        ELSE [sofar EXCEPT !.pipes = Append(@, p)]
           done == scored[Len(kept)]
           points == Cardinality(done.rec) - Cardinality(fb.scoreRecordedPipes)
       IN  /\ fb.score + points <= FlappyScoreCap
           /\ fb' = [fb EXCEPT !.pipes = done.pipes,
                               !.scoreRecordedPipes = done.rec,
                               !.score = @ + points,
                               !.gameOver = crash,
                               !.running = ~crash]
    /\ UNCHANGED exceptFb

FlappyNext ==
    \/ FlappyStart
    \/ \E d \in {0, 5, FlappyStepMax}, due \in BOOLEAN, crash \in BOOLEAN :
           FlappyStep(d, due, crash)

---------------------------------------------------------------------------
(* TicTacToe: the winner, the computer's move and the handlers *)

\* calculateWinner(squares): the mark of the first complete line, or "-".
calculateWinner(squares) ==
    LET lines == << <<0, 1, 2>>, <<3, 4, 5>>, <<6, 7, 8>>,
                    <<0, 3, 6>>, <<1, 4, 7>>, <<2, 5, 8>>,
                    <<0, 4, 8>>, <<2, 4, 6>> >>
        won(k) == /\ squares[lines[k][1]] # "-"
                  /\ squares[lines[k][1]] = squares[lines[k][2]]
                  /\ squares[lines[k][1]] = squares[lines[k][3]]
    IN  IF \E k \in 1..8 : won(k)
        THEN squares[lines[CHOOSE k \in 1..8 : won(k) /\ \A j \in 1..(k - 1) : ~won(j)][1]]
        ELSE "-"

\* The first free cell in the place of the minimax move.
findBestMove_firstFree(board, computer) ==
    CHOOSE i \in 0..8 : board[i] = "-" /\ \A j \in 0..(i - 1) : board[j] # "-"

\* "if (score > best.score) best = { score, move: i }" of the loop of
\* minimax (with < for the minimising side), over the pairs <<cell, score>>
\* of the cells tried: the loop runs through the cells in rising order and
\* replaces the best only by a strictly better score, so it ends with the
\* lowest cell among those of the best score.
pickBest(tried, isMaximizing) ==
    LET best == CHOOSE p \in tried :
                    \A q \in tried :
                        /\ IF isMaximizing THEN q[2] <= p[2] ELSE q[2] >= p[2]
                        /\ q[2] = p[2] => p[1] <= q[1]
    IN  [score |-> best[2], move |-> best[1]]

\* minimax(b, isMaximizing) of findBestMove: a board won by the computer
\* scores 10, one won by its opponent -10, a full one 0; otherwise every
\* free cell is tried with the mark of the side to move and the loop's
\* best answers.
RECURSIVE minimax(_, _, _)
minimax(b, computer, isMaximizing) ==
    LET win == calculateWinner(b)
        opponent == IF computer = "X" THEN "O" ELSE "X"
    IN  IF win = computer THEN [score |-> 10, move |-> -1]
        ELSE IF win = opponent THEN [score |-> -10, move |-> -1]
        ELSE IF \A i \in 0..8 : b[i] # "-" THEN [score |-> 0, move |-> -1]
        ELSE pickBest({<<i, minimax([b EXCEPT ![i] = IF isMaximizing THEN computer
                                                                     ELSE opponent],
                                    computer, ~isMaximizing).score>> :
                           i \in {k \in 0..8 : b[k] = "-"}},
                      isMaximizing)

\* findBestMove(board, computer): the centre on an empty board, otherwise
\* the move of minimax, or the first free cell when minimax has none.
findBestMove(board, computer) ==
    LET move == minimax(board, computer, TRUE).move
    IN  IF \A i \in 0..8 : board[i] = "-" THEN 4
        ELSE IF move = -1
        THEN IF \E i \in 0..8 : board[i] = "-"
             THEN CHOOSE i \in 0..8 : board[i] = "-" /\ \A j \in 0..(i - 1) : board[j] # "-"
             ELSE -1
        ELSE move

\* makeMove(index)
makeMove(s, index) ==
    IF s.board[index] # "-" \/ calculateWinner(s.board) # "-" THEN s
    ELSE [s EXCEPT !.board[index] = IF s.isXNext THEN "X" ELSE "O",
                   !.isXNext = ~@]

\* The handlers of the component against the computer: the human chooses
\* a symbol before the first move, clicks a cell (handleClick), the timer
\* of the effect makes the computer's move, New Game empties the board.
TttNext ==
    /\ UNCHANGED exceptTtt
    /\ LET humanTurn == (ttt.playerSymbol = "X") = ttt.isXNext
           computer == IF ttt.playerSymbol = "X" THEN "O" ELSE "X"
           over == calculateWinner(ttt.board) # "-" \/ \A i \in 0..8 : ttt.board[i] # "-"
       IN  \/ /\ \A i \in 0..8 : ttt.board[i] = "-"
              /\ \E symbol \in {"X", "O"} : ttt' = [ttt EXCEPT !.playerSymbol = symbol]
           \/ /\ humanTurn
              /\ \E index \in 0..8 : ttt' = makeMove(ttt, index)
           \/ /\ ~over /\ ~humanTurn
              /\ LET move == findBestMove(ttt.board, computer)
                 IN  ttt' = IF move # -1 THEN makeMove(ttt, move) ELSE ttt
           \/ ttt' = [ttt EXCEPT !.board = [i \in 0..8 |-> "-"], !.isXNext = TRUE]

---------------------------------------------------------------------------
(* MemoryMatch: the handlers, the effects and the timers *)

\* initGame(limit): new cards, nothing flipped, the moves of the limit. No
\* timer is cleared.
initGame(s, img, limit) ==
    [NewMemory(img, limit) EXCEPT !.timers = s.timers]

\* The effect on [flipped, cards], run in the render r, its updates added
\* to q: with two cards flipped, a pair is marked matched, flipped is
\* emptied and the win check is set for 100 ms later; two different cards
\* get a flip-back timer of 900 ms.
matchEffect(r, q) ==
    IF Len(r.flipped) # 2 THEN q
    ELSE LET a == r.flipped[1]
             b == r.flipped[2]
         IN  IF r.cards[a].img = r.cards[b].img
             THEN [q EXCEPT !.cards[a].isMatched = TRUE, !.cards[b].isMatched = TRUE,
                            !.flipped = <<>>,
                            !.timers = Append(@, [kind |-> "win", a |-> a, b |-> b])]
             ELSE [q EXCEPT !.timers = Append(@, [kind |-> "back", a |-> a, b |-> b])]

\* The effect on [remaining, moves, isWon], run in the render r: out of
\* moves and not won, the game is lost and every card is turned down.
lostEffect(r, q) ==
    IF r.moves > 0 /\ r.remaining <= 0 /\ ~r.isWon
    THEN [q EXCEPT !.isLost = TRUE,
                   !.cards = [i \in DOMAIN @ |-> [@[i] EXCEPT !.isFlipped = FALSE]]]
    ELSE q

\* React renders the state s that followed prev and runs the effects whose
\* dependencies changed (fresh says that cards or flipped was set to a new
\* array), then renders what they set, until an effect pass sets nothing.
RECURSIVE settle(_, _, _)
settle(prev, s, fresh) ==
    LET matched == IF fresh THEN matchEffect(s, s) ELSE s
        lost == IF <<s.remaining, s.moves, s.isWon>> # <<prev.remaining, prev.moves, prev.isWon>>
                THEN lostEffect(s, matched) ELSE matched
    IN  IF lost = s THEN s
        ELSE settle(s, lost, lost.cards # s.cards \/ lost.flipped # s.flipped)

\* handleCard(id)
handleCard(s, id) ==
    IF s.isWon \/ s.isLost THEN s
    ELSE IF s.cards[id].isFlipped \/ s.cards[id].isMatched THEN s
    ELSE IF Len(s.flipped) = 2 THEN s
    ELSE [s EXCEPT !.cards[id].isFlipped = TRUE,
                   !.flipped = Append(@, id),
                   !.moves = @ + 1,
                   !.remaining = @ - 1]

\* The callback of the timer t: the win check sets isWon when every card
\* is matched (its two cards aside) and hands the same cards back; the
\* flip-back turns its two cards down and empties flipped.
fireTimer(s, t) ==
    IF t.kind = "win"
    THEN IF \A i \in DOMAIN s.cards : s.cards[i].isMatched \/ i = t.a \/ i = t.b
         THEN [s EXCEPT !.isWon = TRUE] ELSE s
    ELSE [s EXCEPT !.cards[t.a].isFlipped = FALSE, !.cards[t.b].isFlipped = FALSE,
                   !.flipped = <<>>]

\* The events of the component: a click on a card, the limit typed into
\* the input, Restart or Start with Limit, and a timer that fires.
MemoryNext ==
    /\ UNCHANGED exceptMm
    /\ \/ \E id \in DOMAIN mm.cards :
            LET after == settle(mm, handleCard(mm, id), TRUE)
            IN  /\ after # mm
                /\ Len(after.timers) <= MemoryTimers
                /\ mm' = after
       \/ \E limit \in MemoryLimitMin..MemoryLimitMax :
            mm' = [mm EXCEPT !.moveLimit = limit]
       \/ \E img \in Shuffles :
            mm' = settle(mm, initGame(mm, img, mm.moveLimit), TRUE)
       \/ \E k \in 1..Len(mm.timers) :
            LET t == mm.timers[k]
                left == [mm EXCEPT !.timers = splice(@, k)]
            IN  mm' = settle(left, fireTimer(left, t), t.kind = "back")

---------------------------------------------------------------------------
(* SimonSays: start, playback and input *)

\* startGame() with the colour drawn: a sequence of one colour, and
\* showSequence(seq) on a timer of 420 ms.
simonStart(s, first) ==
    [s EXCEPT !.sequence = <<first>>, !.playerSequence = <<>>,
              !.gameOver = FALSE, !.isPlaying = TRUE,
              !.playbacks = Append(@, [seq |-> <<first>>, i |-> 0])]

\* showSequence(seq), the playback k, up to its next await: it begins by
\* setting isShowingSequence, lights one colour after the other, and ends
\* by clearing isShowingSequence.
showSequence(s, k) ==
    LET pb == s.playbacks[k] IN
    IF pb.i = 0
    THEN [s EXCEPT !.isShowingSequence = TRUE, !.playbacks[k].i = 1]
    ELSE IF pb.i < Len(pb.seq)
    THEN [s EXCEPT !.playbacks[k].i = @ + 1]
    ELSE [s EXCEPT !.isShowingSequence = FALSE, !.playbacks = splice(@, k)]

\* handleColorInput(color), with the colour addNext draws when the round
\* is complete: a wrong colour ends the game; the last right one extends
\* the sequence, empties the player's and sets showSequence(newSeq) on a
\* timer of 650 ms.
handleColorInput(s, color, added) ==
    IF s.isShowingSequence \/ s.gameOver \/ ~s.isPlaying THEN s
    ELSE LET next == Append(s.playerSequence, color)
             idx == Len(next)
         IN  IF idx > Len(s.sequence) \/ color # s.sequence[idx]
             THEN [s EXCEPT !.playerSequence = next,
                            !.gameOver = TRUE, !.isPlaying = FALSE]
             ELSE IF Len(next) = Len(s.sequence)
             THEN LET newSeq == Append(s.sequence, added)
                  IN  [s EXCEPT !.sequence = newSeq, !.playerSequence = <<>>,
                                !.playbacks = Append(@, [seq |-> newSeq, i |-> 0])]
             ELSE [s EXCEPT !.playerSequence = next]

\* The events of the component: Start / Restart or the key r, a colour by
\* button or key, and a playback that goes on after its timer or sleep.
SimonNext ==
    /\ UNCHANGED exceptSs
    /\ \/ \E first \in 1..SimonColors :
            /\ Len(ss.playbacks) < SimonPlaybacks
            /\ ss' = simonStart(ss, first)
       \/ \E color \in 1..SimonColors, added \in 1..SimonColors :
            LET after == handleColorInput(ss, color, added)
            IN  /\ Len(after.sequence) <= SimonRounds
                /\ Len(after.playbacks) <= SimonPlaybacks
                /\ ss' = after
       \/ \E k \in 1..Len(ss.playbacks) : ss' = showSequence(ss, k)

---------------------------------------------------------------------------
(* Snake: keys and moves *)

\* resetGame() with the food generateFood draws.
snakeReset(s, newFood) ==
    [NewSnake EXCEPT !.isPlaying = TRUE, !.food = newFood]

\* handleKeyPress(e) for an arrow key: the direction of the key is taken
\* unless the direction set last is its opposite.
handleKeyPress(s, key) ==
    IF ~s.isPlaying THEN s
    ELSE CASE key = "ArrowUp" -> IF s.direction # "DOWN" THEN [s EXCEPT !.direction = "UP"] ELSE s
           [] key = "ArrowDown" -> IF s.direction # "UP" THEN [s EXCEPT !.direction = "DOWN"] ELSE s
           [] key = "ArrowLeft" -> IF s.direction # "RIGHT" THEN [s EXCEPT !.direction = "LEFT"] ELSE s
           [] OTHER -> IF s.direction # "LEFT" THEN [s EXCEPT !.direction = "RIGHT"] ELSE s

\* moveSnake(), the callback of the interval, with the food generateFood
\* draws when the snake eats: the head goes one cell in the direction; off
\* the grid or on a segment the game is over; on the food the snake grows.
moveSnake(s, newFood) ==
    LET prev == s.snake
        head == CASE s.direction = "UP" -> [prev[1] EXCEPT !.y = @ - 1]
                  [] s.direction = "DOWN" -> [prev[1] EXCEPT !.y = @ + 1]
                  [] s.direction = "LEFT" -> [prev[1] EXCEPT !.x = @ - 1]
                  [] OTHER -> [prev[1] EXCEPT !.x = @ + 1]
        ticked == [s EXCEPT !.ticks = @ + 1]
    IN  IF head.x < 0 \/ head.x >= GRID_SIZE \/ head.y < 0 \/ head.y >= GRID_SIZE
        THEN [ticked EXCEPT !.isGameOver = TRUE, !.isPlaying = FALSE]
        ELSE IF \E k \in 1..Len(prev) : prev[k] = head
        THEN [ticked EXCEPT !.isGameOver = TRUE, !.isPlaying = FALSE]
        ELSE IF head = s.food
        THEN [ticked EXCEPT !.snake = <<head>> \o prev, !.score = @ + 10,
                            !.food = newFood, !.moved = s.direction]
        ELSE [ticked EXCEPT !.snake = <<head>> \o SubSeq(prev, 1, Len(prev) - 1),
                            !.moved = s.direction]

\* The events of the component: Restart, Pause / Play, an arrow key, and
\* the interval, which runs while the game is played and not over. Food is
\* put within SnakeReach cells of the start cell.
SnakeNext ==
    /\ UNCHANGED exceptSn
    /\ \/ \E fx \in (7 - SnakeReach)..(7 + SnakeReach), fy \in (7 - SnakeReach)..(7 + SnakeReach) :
            sn' = snakeReset(sn, [x |-> fx, y |-> fy])
       \/ sn' = [sn EXCEPT !.isPlaying = ~@]
       \/ \E key \in {"ArrowUp", "ArrowDown", "ArrowLeft", "ArrowRight"} :
            sn' = handleKeyPress(sn, key)
       \/ /\ sn.isPlaying /\ ~sn.isGameOver
          /\ sn.ticks < SnakeTicks
          /\ \E fx \in (7 - SnakeReach)..(7 + SnakeReach), fy \in (7 - SnakeReach)..(7 + SnakeReach) :
                sn' = moveSnake(sn, [x |-> fx, y |-> fy])

Init ==
    /\ tb = TankBattleInit
    /\ bd = BulletDodgeInit
    /\ clock = NewClock("tank")
    /\ sd = SliceDashInit
    /\ gr = GravityInit
    /\ ex = NoExpire
    /\ sf = NewSurface("tank", TRUE)
    /\ ids = NewSpawner("dodge")
    /\ nb = BreakoutInit
    /\ ls = NewListeners("dodge")
    /\ pt = NewParticles("breakout")
    /\ geo = NewGeo("tank", <<100, 100>>, <<50, 0>>)
    /\ fb = NewFlappy
    /\ ttt = NewTicTacToe
    /\ mm = MemoryInit
    /\ ss = NewSimon
    /\ sn = NewSnake

ClockInit ==
    /\ tb = TankBattleInit
    /\ bd = BulletDodgeInit
    /\ clock \in {NewClock("tank"), NewClock("flappy")}
    /\ sd = SliceDashInit
    /\ gr = GravityInit
    /\ ex = NoExpire
    /\ sf = NewSurface("tank", TRUE)
    /\ ids = NewSpawner("dodge")
    /\ nb = BreakoutInit
    /\ ls = NewListeners("dodge")
    /\ pt = NewParticles("breakout")
    /\ geo = NewGeo("tank", <<100, 100>>, <<50, 0>>)
    /\ fb = NewFlappy
    /\ ttt = NewTicTacToe
    /\ mm = MemoryInit
    /\ ss = NewSimon
    /\ sn = NewSnake

\* The frame clocks of TankBattle and FlappyBird, over every gap.
SpecClock == ClockInit /\ [][ClockNext]_vars

\* SliceDash, misses: two fruits falling, up to the tenth miss and beyond.
SpecSlice == Init /\ [][SliceNext(MissFruits, MissScoreCap, MissComboCap, MissCap)]_vars

\* SliceDash, scores: one fruit at a time, scores beyond the bomb's penalty.
SpecBomb == Init /\ [][SliceNext(BombFruits, BombScoreCap, BombComboCap, BombMissCap)]_vars

\* GravitySwayRunner.
SpecRunner == Init /\ [][GravityNext(RunnerObstacles, RunnerCreated)]_vars

\* The removal passes, on every collection and predicate.
SpecExpire == ExpireInit /\ [][ExpireNext]_vars

\* The canvas and the loop, for TankBattle, BulletDodge and FlappyBird.
SpecSurface == SurfaceInit /\ [][SurfaceNext]_vars

\* The identifiers of BulletDodge and SliceDash.
SpecSpawner == SpawnerInit /\ [][SpawnerNext]_vars

\* NeonBreakoutBlitz.
SpecBreakout == Init /\ [][BreakoutNext]_vars

\* NeonBreakoutBlitz, its levels: a timer set by setTimeout fires.
SpecLevels == Init /\ [][LevelNext]_vars /\ WF_vars(nextLevelTimer)

\* TicTacToe against the computer.
SpecTicTacToe == Init /\ [][TttNext]_vars

\* MemoryMatch.
SpecMemory == Init /\ [][MemoryNext]_vars

\* SimonSays.
SpecSimon == Init /\ [][SimonNext]_vars

\* Snake.
SpecSnake == Init /\ [][SnakeNext]_vars

\* FlappyBird.
SpecFlappy == Init /\ [][FlappyNext]_vars

\* A bullet of TankBattle or BulletDodge in flight.
SpecGeo == GeoInit /\ [][GeoNext]_vars

\* The particles of NeonBreakoutBlitz and SliceDash.
SpecParticles == ParticleInit /\ [][ParticleNext]_vars

\* The pointer handlers of BulletDodge and SliceDash.
SpecTouch == ListenersInit /\ [][TouchNext]_vars

\* The listeners of BulletDodge and SliceDash.
SpecListeners == ListenersInit /\ [][ListenersNext]_vars

\* BulletDodge.
SpecDodge == Init /\ [][DodgeNext]_vars

\* TankBattle, match level: one bullet in flight, kill counts up to the cap.
SpecTank == Init /\ [][TankNext(MatchBullets, MatchScoreCap, MatchTimers)]_vars

\* TankBattle, bullet loop: several bullets in flight, a short match.
SpecBullets == Init /\ [][TankNext(LoopBullets, LoopScoreCap, LoopTimers)]_vars

---------------------------------------------------------------------------
(* Properties of TankBattle *)

\* The GameState of the spec, from the component's running and gameOver.
GameState(s) ==
    IF s.running /\ s.gameOver THEN "RunningAndOver"
    ELSE IF s.gameOver THEN "GameOver"
    ELSE IF s.running THEN "Running" ELSE "Idle"

\* C1: once reset has returned (the game is Idle), no frame callback runs a
\* simulation step and a render until startGame is called again.
C1_NoFrameWhileIdle ==
    [][(tb.pc = "idle" /\ GameState(tb) = "Idle") => ~loopHead(MatchBullets)]_vars

\* C3: a newRound timer that fires after the game has ended (the match was
\* won during the 1.5 s delay) applies no effect: tanks and bullets stay as
\* they are.
C3_StaleTimerDropped ==
    [][(newRoundTimer /\ GameState(tb) = "GameOver")
          => (/\ tb'.tank1Ref = tb.tank1Ref
              /\ tb'.tank2Ref = tb.tank2Ref
              /\ tb'.bulletsRef = tb.bulletsRef)]_vars

C6_EveryBounceReflects ==
    [][(/\ tb.pc = "bullets" /\ tb.i >= 1
        /\ Len(tb'.bulletsRef) = Len(tb.bulletsRef)
        /\ tb'.bulletsRef[tb.i].bounces = tb.bulletsRef[tb.i].bounces + 1)
          => tb'.bulletsRef[tb.i].zone = "open"]_vars

\* C8: the bullet collection changes only inside the simulation step
\* (between loopHead and loopTail), never in a handler that runs outside it.
C8_OnlyStepMutates ==
    [][(tb.pc = "idle" /\ tb'.pc = "idle") => tb'.bulletsRef = tb.bulletsRef]_vars

\* C9: a match is over exactly when a side has WIN_SCORE kills: while it
\* runs both counts are below WIN_SCORE, and when it is over the winner has
\* WIN_SCORE and the loser less.
C9_FirstToFiveWins ==
    /\ GameState(tb) = "Running" => (tb.score1 < WIN_SCORE /\ tb.score2 < WIN_SCORE)
    /\ GameState(tb) = "GameOver" =>
          \/ tb.winner = 1 /\ tb.score1 = WIN_SCORE /\ tb.score2 < WIN_SCORE
          \/ tb.winner = 2 /\ tb.score2 = WIN_SCORE /\ tb.score1 < WIN_SCORE

\* The GameState of BulletDodge.
DodgeState(s) ==
    IF s.gameOver THEN "GameOver" ELSE IF s.running THEN "Running" ELSE "Idle"

\* Where the bullets are.
Positions(bullets) == [k \in 1..Len(bullets) |-> <<bullets[k].x, bullets[k].y>>]

\* C2: a frame that runs step while the game is not Running changes nothing
\* of the simulation: no bullet or power-up moves or disappears, and neither
\* the score nor the lives change.
C2_NoAdvanceUnlessRunning ==
    [][(DodgeStep /\ DodgeState(bd) # "Running")
        => /\ Positions(bd'.bulletsRef) = Positions(bd.bulletsRef)
           /\ bd'.powerUpsRef = bd.powerUpsRef
           /\ bd'.scoreRef = bd.scoreRef
           /\ bd'.lives = bd.lives]_vars

\* C7: whenever a tick measures a raw gap of at least the game's maximum
\* (50 ms in TankBattle, 40 ms in FlappyBird), the dt it hands on is that
\* maximum and not the raw gap; no dt exceeds 50 ms.
C7_DtClamped ==
    /\ clock.dt <= LOOP_MAX_DT
    /\ (clock.game = "tank" /\ clock.raw >= LOOP_MAX_DT) => clock.dt = LOOP_MAX_DT
    /\ (clock.game = "flappy" /\ clock.raw >= STEP_MAX_DT) => clock.dt = STEP_MAX_DT

\* C7 witness: TankBattle's clock has measured a gap above 50 ms and handed
\* on 50 ms.
C7_LongGapTank ==
    clock.game = "tank" /\ clock.raw > LOOP_MAX_DT /\ clock.dt = LOOP_MAX_DT

\* The bullets of s that the coming move carries onto the player.
Incoming(s) ==
    {k \in 1..Len(s.bulletsRef) :
        LET b == s.bulletsRef[k]
        IN  ~b.fresh /\ b.x + b.vx = s.playerRef.x /\ b.y + b.vy = s.playerRef.y}

\* C10: a shield absorbs one hit only: when a step removes two (or more)
\* bullets that both were about to reach the shielded player, the second one
\* costs a life.
C10_ShieldAbsorbsOneHit ==
    [][(/\ DodgeStep
        /\ bd.shield
        /\ Cardinality(Incoming(bd)) >= 2
        /\ Len(bd'.bulletsRef) <= Len(bd.bulletsRef) - 2)
        => bd'.lives < bd.lives]_vars

---------------------------------------------------------------------------
(* SliceDash: misses and bombs *)

\* C11: the tenth miss of a session ends the game in the step that counts it
\* (whenever ten or more misses are counted the game is over and not
\* running), and while time is left the game becomes over only in a step
\* that counts the tenth miss.
C11_TenthMissEndsGame ==
    [][ /\ (sd'.missedRef >= MAX_MISSES => sd'.gameOver /\ ~sd'.running)
        /\ (~sd.gameOver /\ sd'.gameOver /\ sd.timeLeft > 0
              => sd.missedRef < MAX_MISSES /\ sd'.missedRef >= MAX_MISSES) ]_vars

\* The tenth miss has been counted with time left, and the game is over.
C11_TenthMiss ==
    sd.missedRef = MAX_MISSES /\ sd.gameOver /\ ~sd.running /\ sd.timeLeft > 0

\* A step of SliceDash that cuts one bomb and nothing else: the fruits are
\* the same ones, each where it was or one zone lower, and fruit k, an
\* unsliced bomb, is the only one that becomes sliced.
BombCut(k) ==
    /\ k \in 1..Len(sd.fruitsRef)
    /\ Len(sd'.fruitsRef) = Len(sd.fruitsRef)
    /\ sd.fruitsRef[k].kind = "bomb" /\ ~sd.fruitsRef[k].sliced
    /\ \A j \in 1..Len(sd.fruitsRef) :
          /\ sd'.fruitsRef[j].kind = sd.fruitsRef[j].kind
          /\ sd'.fruitsRef[j].zone \in {sd.fruitsRef[j].zone, sd.fruitsRef[j].zone + 1}
          /\ sd'.fruitsRef[j].sliced = (sd.fruitsRef[j].sliced \/ j = k)

---------------------------------------------------------------------------
(* GravitySwayRunner: passes and the hit *)

\* The obstacles of the collection that carry the passed flag.
PassedIds(s) ==
    {s.obstaclesRef[k].id : k \in {j \in 1..Len(s.obstaclesRef) : s.obstaclesRef[j].passed}}

ObstacleIds(s) == {s.obstaclesRef[k].id : k \in 1..Len(s.obstaclesRef)}

\* C12: a frame of the loop raises the score by the number of obstacles
\* that get their passed flag in it, a flag once set stays, and every
\* obstacle whose right edge is left of the player has it; and the frame
\* after which the player's box overlaps an obstacle, and no other, sets
\* the game over, clears running and requests no further frame.
C12_PassOnceHitEnds ==
    [][ GravityLoop(RunnerObstacles, RunnerCreated) =>
          /\ gr'.score = gr.score + Cardinality(PassedIds(gr') \ PassedIds(gr))
          /\ (PassedIds(gr) \cap ObstacleIds(gr')) \subseteq PassedIds(gr')
          /\ \A k \in 1..Len(gr'.obstaclesRef) :
                gr'.obstaclesRef[k].x <= BEHIND => gr'.obstaclesRef[k].passed
          /\ (collided(gr') => gr'.gameOver /\ ~gr'.running /\ ~gr'.rafPending)
          /\ (gr'.gameOver => collided(gr') /\ ~gr.gameOver) ]_vars

\* The player has passed an obstacle and hit another: the score is the one
\* pass, the game is over and no frame is requested.
C12_PassedThenHit ==
    /\ gr.score = 1 /\ Cardinality(PassedIds(gr)) = 1
    /\ \E k \in 1..Len(gr.obstaclesRef) :
          ~gr.obstaclesRef[k].passed /\ overlaps(gr.player, gr.obstaclesRef[k])
    /\ gr.gameOver /\ ~gr.running /\ ~gr.rafPending
---------------------------------------------------------------------------
(* The removal passes *)

EntitiesOf(coll) == {coll[k] : k \in 1..Len(coll)}

\* C14: a pass keeps exactly the entities its predicate does not hold of,
\* unchanged and in their order, whatever the collection and the
\* predicate, and a pass after the first removes nothing.
C14_ExpireExact ==
    [][ ex'.passes > ex.passes =>
          /\ EntitiesOf(ex'.coll)
               = {e \in EntitiesOf(ex.coll) : ~satisfies(e, ex'.pred, ex'.hit)}
          /\ \A k \in 1..(Len(ex'.coll) - 1) : ex'.coll[k].id < ex'.coll[k + 1].id
          /\ (ex.passes >= 1 => ex'.coll = ex.coll) ]_vars

\* Two passes have run on three entities: the first removed the first and
\* the last and kept the one between them.
C14_OuterRemoved ==
    /\ ex.passes = 2
    /\ Len(ex.coll) = 1 /\ ex.coll[1].id = 2
    /\ ex.coll[1].v \notin ex.pred
    /\ ex.pred # {}
---------------------------------------------------------------------------
(* The frame clock: the lower end of dt *)

\* C15: the dt a tick hands to the simulation is never negative, whatever
\* the timestamp of the frame and the stored last timestamp are, the first
\* frame after a start or a reset included.
C15_DtNeverNegative == clock.dt >= 0
---------------------------------------------------------------------------
(* The drawing context and the loop: what a missing context stops *)

\* C16: a missing drawing context skips the rendering only: while the game
\* is running a frame of the loop is requested, so the simulation goes on.
C16_SimulationGoesOn == sf.running => sf.raf = "loop"
---------------------------------------------------------------------------
(* The identifiers of spawned entities: order of allocation *)

\* C17: the identifier a spawn allocates is greater than every identifier
\* allocated before it (the next identifier never goes back, across starts,
\* resets and delayed spawns), and the spawned entity is appended to the
\* end of the collection.
C17_IdsIncrease ==
    [][ /\ ids'.idRef >= ids.idRef
        /\ (Spawn \/ SpawnDelayed) /\ ids'.entities # ids.entities
              => ids'.entities = Append(ids.entities, ids.idRef) ]_vars
---------------------------------------------------------------------------
(* NeonBreakoutBlitz: shapes *)

\* C18: the radius of every ball and the width and height of every block
\* are those of their creation, and so is the height of the paddle; the
\* width of the paddle is PADDLE_W, and 1.5 * PADDLE_W exactly while the
\* expand power-up lasts.
C18_ShapesFixedButPaddleWidth ==
    /\ \A k \in 1..Len(nb.ballsRef) : nb.ballsRef[k].radius = BALL_R
    /\ \A k \in 1..Len(nb.blocksRef) :
          nb.blocksRef[k].w = BLOCK_W /\ nb.blocksRef[k].h = BLOCK_H
    /\ nb.paddleRef.h = PADDLE_H
    /\ nb.paddleRef.w = (IF nb.powerUpStateRef.expand > 0 THEN PADDLE_WIDE ELSE PADDLE_W)

\* C18 as stated, for the paddle: no step changes its width or its height.
C18_PaddleShapeFixed ==
    [][nb'.paddleRef = nb.paddleRef]_vars

\* The running game has a wide paddle, with balls and blocks around.
C18_WidePaddle ==
    /\ nb.running /\ nb.paddleRef.w = PADDLE_WIDE
    /\ nb.powerUpStateRef.expand > 0
    /\ nb.blocksRef # <<>>
    /\ \E k \in 1..Len(nb.ballsRef) : nb.ballsRef[k].active
---------------------------------------------------------------------------
(* NeonBreakoutBlitz: stopping the loop *)

\* C19: stopping the game (Reset) cancels the frame that was requested:
\* once it has returned no frame callback is pending.
C19_StopCancelsFrame ==
    [][BreakoutClickReset => ~nb'.rafPending]_vars
---------------------------------------------------------------------------
(* The event listeners of a component: what is left after unmount *)

\* C20: once the component is stopped and unmounted, none of the listeners
\* it attached is registered on the canvas or on the window.
C20_NoListenerLeft ==
    ~ls.mounted =>
        /\ ls.canvas.pointerdown = 0 /\ ls.canvas.touchstart = 0
        /\ ls.window.pointermove = 0 /\ ls.window.pointerup = 0
        /\ ls.window.keydown = 0
        /\ ls.window.touchmove = 0 /\ ls.window.touchend = 0
---------------------------------------------------------------------------
(* Multi-touch *)

\* C21: while one touch is active, an event of any later simultaneous
\* touch changes neither the pointer position nor the drag state.
C21_LaterTouchIgnored ==
    [][\A type \in {"down", "move", "up"}, id \in 1..TouchPointers, p \in 0..TouchCells :
          PointerEvent(type, id, p) /\ ls.pointers # <<>> /\ id # Head(ls.pointers)
              => ls'.pos = ls.pos /\ ls'.dragging = ls.dragging]_vars
---------------------------------------------------------------------------
(* Particles: expiry and alpha *)

\* C22, as the code has it: a particle of NeonBreakoutBlitz carries life and
\* maxLife, a frame removes it exactly when its life, dt added, is >=
\* maxLife, and it is drawn with alpha 1 - life / maxLife; a particle of
\* SliceDash carries born and life, a frame removes it exactly when
\* now - born >= life, and it is drawn with alpha
\* max(0, 1 - (now - born) / life), now read again at the drawing.
C22_ExpiryByGame ==
    [][\A gap \in 0..ParticleGap, d \in 0..ParticleStep, lag \in 0..ParticleLag :
          ParticleFrame(gap, d, lag) =>
              /\ Len(pt'.drawn) = Len(pt'.particles)
              /\ IF pt.game = "breakout"
                 THEN /\ pt'.particles =
                            SelectSeq([i \in 1..Len(pt.particles) |->
                                          [pt.particles[i] EXCEPT !.life = @ + d]],
                                      LAMBDA p : ~(p.life >= p.maxLife))
                      /\ \A i \in 1..Len(pt'.particles) :
                            LET p == pt'.particles[i]
                            IN  pt'.drawn[i] = <<p.maxLife - p.life, p.maxLife>>
                 ELSE /\ pt'.particles =
                            SelectSeq(pt.particles,
                                      LAMBDA p : ~(pt.now + gap - p.born >= p.life))
                      /\ \A i \in 1..Len(pt'.particles) :
                            LET p == pt'.particles[i]
                                left == p.life - (pt'.now - p.born)
                            IN  pt'.drawn[i] = <<IF left < 0 THEN 0 ELSE left, p.life>>]_vars

\* C22, as stated: every particle carries life and maxLife, a frame
\* removes it exactly when life >= maxLife, and it is drawn with alpha
\* 1 - life / maxLife.
C22_ExpiryByLifeMaxLife ==
    [][\A gap \in 0..ParticleGap, d \in 0..ParticleStep, lag \in 0..ParticleLag :
          ParticleFrame(gap, d, lag) =>
              /\ \A i \in 1..Len(pt.particles) : "maxLife" \in DOMAIN pt.particles[i]
              /\ \E kept \in SUBSET (1..Len(pt.particles)) :
                    /\ Len(pt'.particles) = Cardinality(kept)
                    /\ \A i \in 1..Len(pt.particles) :
                          i \in kept <=>
                              \E j \in 1..Len(pt'.particles) :
                                  /\ j = Cardinality({k \in kept : k <= i})
                                  /\ pt'.particles[j].maxLife = pt.particles[i].maxLife
                                  /\ ~(pt'.particles[j].life >= pt'.particles[j].maxLife)
                    /\ \A i \in (1..Len(pt.particles)) \ kept :
                          pt.particles[i].life + d >= pt.particles[i].maxLife
              /\ Len(pt'.drawn) = Len(pt'.particles)
              /\ \A i \in 1..Len(pt'.particles) :
                    LET p == pt'.particles[i]
                    IN  pt'.drawn[i] = <<p.maxLife - p.life, p.maxLife>>]_vars

\* A frame of NeonBreakoutBlitz has removed one particle and drawn the
\* other, partly faded.
C22_OneExpiredOneFaded ==
    /\ pt.game = "breakout" /\ pt.made = 2
    /\ Len(pt.particles) = 1 /\ Len(pt.drawn) = 1
    /\ pt.drawn[1][1] > 0 /\ pt.drawn[1][1] < pt.drawn[1][2]
---------------------------------------------------------------------------
(* TankBattle: the frame is drawn when the step is over *)

\* C23: whenever the canvas is drawn, no simulation step is part way
\* through: the draw of a frame comes when the bullet loop of that frame
\* has handled every bullet.
C23_DrawAfterStep ==
    \/ tb.drawn.pc = "idle"
    \/ tb.drawn.pc = "bullets" /\ tb.drawn.i = 0

\* A frame whose bullet loop counted a kill has been drawn.
C23_DrawnAfterKill ==
    /\ tb.drawn.pc = "bullets" /\ tb.pc = "idle"
    /\ tb.score1 + tb.score2 > 0
---------------------------------------------------------------------------
(* Movement: what a frame adds to a position *)

---------------------------------------------------------------------------
(* Hit tests *)

\* C25: two circles of radius 10 at (0,0) and (15,0) intersect, at (0,0)
\* and (25,0) they do not, and the test of a bullet against the circle at
\* the origin (BulletDodge: the player, TankBattle: a tank) answers true
\* exactly when dist^2 <= (r1 + r2)^2.
C25_CircleTestsByDistance ==
    /\ circleCircleCollide(0, 0, 10, 15, 0, 10)
    /\ ~circleCircleCollide(0, 0, 10, 25, 0, 10)
    /\ LET hit == IF geo.game = "tank"
                  THEN hitsTank(geo.e.x, geo.e.y, 0, 0, geo.radius)
                  ELSE circleCircleCollide(0, 0, geo.radius, geo.e.x, geo.e.y, geo.e.r)
       IN  hit <=> geo.e.x * geo.e.x + geo.e.y * geo.e.y
                       <= (geo.e.r + geo.radius) * (geo.e.r + geo.radius)

\* C26: for the bullet as the circle and a square of side 20 to its right,
\* the circle-rectangle tests of BulletDodge, TankBattle and FlappyBird
\* give the same answer.
C26_RectTestsAgree ==
    \A left \in {29, 33, 40} :
        LET dodge == circleRectCollide(geo.e.x, geo.e.y, geo.e.r,
                                       Px(left), Px(-10), Px(20), Px(20))
            tank == circleRectCollision(geo.e.x, geo.e.y, geo.e.r,
                                        Px(left), Px(-10), Px(20), Px(20))
            flappy == intersectsPipe(geo.e.x, geo.e.y, geo.e.r,
                                     Px(left), Px(-10), Px(20), Px(20))
        IN  dodge = tank /\ tank = flappy
---------------------------------------------------------------------------
(* FlappyBird: how often a pipe is scored *)

\* C27: a pipe has been scored once when its centre is left of the bird,
\* and not at all before: never twice, over any number of frames.
C27_PipeScoredOnce ==
    \A k \in 1..Len(fb.pipes) :
        fb.pipes[k].n = IF fb.pipes[k].x + PIPE_WIDTH < birdX(fb) THEN 1 ELSE 0
---------------------------------------------------------------------------
(* TicTacToe: the human never wins against the computer *)

\* C28: against the computer no line is ever completed in the human's
\* symbol: a finished game is won by the computer or drawn.
C28_HumanNeverWins ==
    ttt.mode = "single" => calculateWinner(ttt.board) # ttt.playerSymbol

\* A game the computer has won, playing O.
C28_ComputerWon ==
    /\ ttt.mode = "single" /\ ttt.playerSymbol = "X"
    /\ calculateWinner(ttt.board) = "O"

\* C29: a kill is counted only while both tanks are alive: once a tank's
\* health is at 0 or below, neither kill count changes until the tanks are
\* restored.
C29_OneKillPerRound ==
    [][(tb'.score1 # tb.score1 \/ tb'.score2 # tb.score2)
            => (tb.tank1Ref.health > 0 /\ tb.tank2Ref.health > 0)]_vars

\* C30: the first frame of a match (the frame that finds no last timestamp
\* while the game runs, as startGame leaves it) begins with both kill
\* counts at 0.
C30_MatchStartsAtZero ==
    [][(tb.pc = "idle" /\ tb'.pc = "bullets" /\ tb.running /\ ~tb.lastTimeRef)
            => (tb.score1 = 0 /\ tb.score2 = 0)]_vars

---------------------------------------------------------------------------
(* NeonBreakoutBlitz: levels *)

C32_LevelUpByOne ==
    [][(nb.runningRef /\ nb.levelTimers # <<>> /\ nb'.levelTimers = Tail(nb.levelTimers))
            => nb'.level = nb.level + 1]_vars

---------------------------------------------------------------------------
(* MemoryMatch: won, lost and the cards that are face-up *)

\* C33: the game is never both won and lost.
C33_NotWonAndLost == ~(mm.isWon /\ mm.isLost)

\* C34: every card that is face-up and not matched is listed in flipped,
\* and flipped holds at most two card ids.
C34_FaceUpIsFlipped ==
    /\ \A i \in DOMAIN mm.cards :
          (mm.cards[i].isFlipped /\ ~mm.cards[i].isMatched)
              => \E k \in 1..Len(mm.flipped) : mm.flipped[k] = i
    /\ Len(mm.flipped) <= 2

---------------------------------------------------------------------------
(* SimonSays: input and playback *)

\* C35: a colour of the player is taken (it extends the player's sequence,
\* completes the round or ends the game) only while no playback is
\* scheduled or running.
C35_NoInputDuringPlayback ==
    [][(\/ Len(ss'.playerSequence) = Len(ss.playerSequence) + 1
        \/ Len(ss'.sequence) = Len(ss.sequence) + 1
        \/ ss'.gameOver /\ ~ss.gameOver)
            => ss.playbacks = <<>>]_vars

\* C35, the playbacks: no two are scheduled or running at once.
C35_OnePlayback == Len(ss.playbacks) <= 1

---------------------------------------------------------------------------
(* Snake: no reversal *)

\* C36: the direction a move applies is never the opposite of the direction
\* of the move before it.
C36_NoReversal ==
    [][sn'.ticks = sn.ticks + 1
            => <<sn.moved, sn.direction>> \notin
                  {<<"UP", "DOWN">>, <<"DOWN", "UP">>, <<"LEFT", "RIGHT">>, <<"RIGHT", "LEFT">>}]_vars

=============================================================================
